---- MODULE Spec2Model ----
(***************************************************************************)
(* FA Viewer: the refresh-job orchestrator of the consolidated server      *)
(* (src/unnamed/part_000): POST /api/refresh, GET /api/refresh-status,     *)
(* GET /api/list and the background task runRefreshJob, over the list      *)
(* store (MongoDB when connected, process memory otherwise).               *)
(*                                                                         *)
(* Node runs one callback at a time.  A step of this model is one such     *)
(* callback: the code between two suspension points (await of a network    *)
(* call, of a timer, of a MongoDB operation).  An await of the in-memory   *)
(* store resolves in the microtask queue, before any other callback runs.  *)
(* A promise that rejects with no handler ends the process on Node 15 and   *)
(* later and only warns before: both outcomes are followed.                *)
(*                                                                         *)
(* faFetch, tmdbEnrich, the marks handlers and the pure functions          *)
(* (scoreMatch, the merge, parseListPage, parseTotalPages, makeKey) are    *)
(* followed on their own, each in a specification of its own.              *)
(***************************************************************************)
EXTENDS Integers, Sequences, FiniteSets, TLC

VARIABLES
  alive,     \* TRUE: the Node process runs; FALSE: it has exited with code 1
             \* on an unhandled promise rejection, and what the variables of
             \* its memory (jobs, tasks, pending, the caches) show is lost
  db,        \* TRUE: MongoDB connected (connectDB succeeded); FALSE: memory
  TMDB_KEY,  \* TRUE: a metadata API key is configured
  site,      \* what the upstream site serves: [total, head, tail]
  lists,     \* the "lists" collection / mem.lists: key -> document or NoDoc
  jobs,      \* the jobs object: key -> job entry or NoJob
  tasks,     \* the runRefreshJob invocations, in launch order
  pending,   \* handlers suspended at "await dbGetList(key)": key -> op -> count
  resp,      \* the HTTP response sent by the last step, NoResp if it sent none
  io,        \* the answer of the site or of the store that the last step of a
             \* task consumed, NoIo for any other step
  now,       \* Date.now(), in ms since the process started
  faCookie,  \* the session cookie of the site, "" when none
  faCookieTs,\* Date.now() when faCookie was set
  tmdbCache, \* the tmdbCache object: film id -> entry or NoEntry
  tmdbStore, \* the "tmdb" collection / mem.tmdb: film id -> entry or NoEntry
  call,      \* the faFetch or tmdbEnrich call followed on its own: where it
             \* is suspended, the requests it has sent, what it returned
  marks,     \* the "marks" collection / mem.marks: key -> document or NoMarks
  calc       \* the last application of a function followed on its own: its
             \* arguments and what it returned

(* The session cookie, the caches of tmdbEnrich and the clock they read,    *)
(* the marks, and the function application followed on its own.            *)
aux == <<now, faCookie, faCookieTs, tmdbCache, tmdbStore, call, marks, calc>>

vars == <<alive, db, TMDB_KEY, site, lists, jobs, tasks, pending, resp, io, aux>>

----------------------------------------------------------------------------
(* Bounds of the model *)

MaxTasks == 3          \* runRefreshJob invocations in one behaviour
MaxPending == 1        \* handlers suspended at an await at one time

(* Program constants *)

PageCap == 30          \* Math.min(totalPages, 30)
MinHtmlLength == 200   \* html.length < 200
MaxPagerNumber == 99   \* n <= 99 in parseTotalPages

(* The list keys of the store and of the jobs object, and the keys whose    *)
(* list URL the requests of the orchestrator specification carry.           *)
Keys == {"k1", "k2"}
RequestedKeys == {"k1"}

(* Texts, as sequences of characters *)

(* "https://" *)
Https ==
  <<"h", "t", "t", "p", "s", ":", "/", "/">>

(* "http://" *)
Http ==
  <<"h", "t", "t", "p", ":", "/", "/">>

(* "www.filmaffinity.com" *)
WwwHost ==
  <<"w", "w", "w", ".", "f", "i", "l", "m", "a", "f", "f", "i", "n", "i",
    "t", "y", ".", "c", "o", "m">>

(* "example.org" *)
OtherHost ==
  <<"e", "x", "a", "m", "p", "l", "e", ".", "o", "r", "g">>

(* "filmaffinity.com" *)
SiteName ==
  <<"f", "i", "l", "m", "a", "f", "f", "i", "n", "i", "t", "y", ".", "c",
    "o", "m">>

(* "/es/userlist.php?user_id=1&list_id=" *)
ListPath ==
  <<"/", "e", "s", "/", "u", "s", "e", "r", "l", "i", "s", "t", ".", "p",
    "h", "p", "?", "u", "s", "e", "r", "_", "i", "d", "=", "1", "&", "l",
    "i", "s", "t", "_", "i", "d", "=">>

(* "www.filmaffinity.com.evil.org" *)
LookalikeHost ==
  WwwHost \o <<".", "e", "v", "i", "l", ".", "o", "r", "g">>

(* The URLs of the requests.  A URL is one string where it is only passed   *)
(* on; UrlTexts has its characters for the code that reads them.            *)
UrlTexts ==
  [ u \in { "https://www.filmaffinity.com/",
            "https://www.filmaffinity.com/es/userlist.php?user_id=1&list_id=1",
            "https://www.filmaffinity.com/es/userlist.php?user_id=1&list_id=2",
            "http://www.filmaffinity.com/es/userlist.php?user_id=1&list_id=1",
            "http://www.filmaffinity.com/es/userlist.php?user_id=1&list_id=2",
            "https://www.filmaffinity.com.evil.org/list",
            "https://example.org/",
            "https://example.org/filmaffinity.com" } |->
      CASE u = "https://www.filmaffinity.com/" -> Https \o WwwHost \o <<"/">>
        [] u = "https://www.filmaffinity.com/es/userlist.php?user_id=1&list_id=1"
             -> Https \o WwwHost \o ListPath \o <<"1">>
        [] u = "https://www.filmaffinity.com/es/userlist.php?user_id=1&list_id=2"
             -> Https \o WwwHost \o ListPath \o <<"2">>
        [] u = "http://www.filmaffinity.com/es/userlist.php?user_id=1&list_id=1"
             -> Http \o WwwHost \o ListPath \o <<"1">>
        [] u = "http://www.filmaffinity.com/es/userlist.php?user_id=1&list_id=2"
             -> Http \o WwwHost \o ListPath \o <<"2">>
        [] u = "https://www.filmaffinity.com.evil.org/list"
             -> Https \o LookalikeHost \o <<"/", "l", "i", "s", "t">>
        [] u = "https://example.org/" -> Https \o OtherHost \o <<"/">>
        [] u = "https://example.org/filmaffinity.com"
             -> Https \o OtherHost \o <<"/">> \o SiteName ]

Text(u) == UrlTexts[u]

(* The list URL that the requests of the orchestrator specification carry;  *)
(* makeKey gives it the key "k1".                                           *)
RequestedUrl == "https://www.filmaffinity.com/es/userlist.php?user_id=1&list_id=1"

Min(a, b) == IF a <= b THEN a ELSE b

----------------------------------------------------------------------------
(* Film records and pages.  A film is reduced to its id, a title that tells *)
(* two scraped records of one id apart, and what enrichment did to it.      *)

Film(i, t) == [id |-> i, title |-> t, enriched |-> FALSE, tmdb |-> FALSE]

Reverse(s) == [i \in 1..Len(s) |-> s[Len(s) + 1 - i]]

RECURSIVE DedupeById(_)
DedupeById(s) ==
  IF s = << >> THEN << >>
  ELSE LET front == DedupeById(SubSeq(s, 1, Len(s) - 1))
           last  == s[Len(s)]
       IN IF \E j \in 1..Len(front) : front[j].id = last.id
            THEN front
            ELSE Append(front, last)

(* The html of page p of the site, reduced to what the two parsers read in  *)
(* it: the detail-page anchors in document order and the numbers that the   *)
(* pagination links show.                                                   *)
SiteAnchors(p) == IF p <= Len(site.head) THEN site.head[p] ELSE site.tail

Html(p) == [anchors |-> SiteAnchors(p), pager |-> site.pager]

SetMax(S) == CHOOSE n \in S : \A m \in S : m <= n
SetMin(S) == CHOOSE n \in S : \A m \in S : n <= m

(* One record per distinct id, first occurrence kept. *)
parseListPage(html) == DedupeById(html.anchors)

parseTotalPagesNoCeiling(html) ==
  LET above == {n \in html.pager : n > 1}
  IN IF above = {} THEN 1 ELSE SetMax(above)

parseTotalPages(html) ==
  LET above == {n \in html.pager : n > 1 /\ n <= MaxPagerNumber}
  IN IF above = {} THEN 1 ELSE SetMax(above)

----------------------------------------------------------------------------
(* faFetch: what it makes of the HTTP response r to the GET of page p.      *)

Ok(html)  == [ok |-> TRUE,  html |-> html, msg |-> ""]
Err(msg)  == [ok |-> FALSE, html |-> [anchors |-> << >>, pager |-> {}], msg |-> msg]

HttpOk(r) == r.status >= 200 /\ r.status <= 299

faFetchMarkerBeforeLength(r, p) ==
  IF r.status = 429 THEN Err("429")
  ELSE IF r.status = 403 THEN Err("403")
  ELSE IF r.status = 503 THEN Err("503")
  ELSE IF ~HttpOk(r) THEN Err("HTTP")
  ELSE IF r.challenge THEN Err("cloudflare")
  ELSE IF r.len < MinHtmlLength THEN Err("empty")
  ELSE Ok(Html(p))

(* The checks of faFetch on the answer r of the GET of page p, in order. *)
faFetch(r, p) ==
  IF r.status = 429 THEN Err("429")
  ELSE IF r.status = 403 THEN Err("403")
  ELSE IF r.status = 503 THEN Err("503")
  ELSE IF ~HttpOk(r) THEN Err("HTTP")
  ELSE IF r.len < MinHtmlLength THEN Err("empty")
  ELSE IF r.challenge THEN Err("cloudflare")
  ELSE Ok(Html(p))

(* The responses the upstream gives in the orchestrator specification. *)
HttpResponses ==
  [status : {200, 429}, len : {199, 200}, challenge : {FALSE}]

----------------------------------------------------------------------------
(* Jobs, tasks, store documents, responses *)

NoProgress == [phase |-> "none", n |-> 0, of |-> 0]
Progress(phase, n, of) == [phase |-> phase, n |-> n, of |-> of]

NoJob == [status |-> "absent", progress |-> NoProgress, error |-> ""]
NewJob == [status |-> "running", progress |-> Progress("connect", 0, 0), error |-> ""]

JobPresent(k) == jobs[k].status # "absent"

NoDoc == [present |-> FALSE, films |-> << >>, ts |-> <<0, 0>>]
Doc(films, ts) == [present |-> TRUE, films |-> films, ts |-> ts]

NoResp == [op |-> "none", key |-> "", branch |-> "", status |-> "", films |-> << >>,
           progress |-> NoProgress, error |-> ""]

NoIo == [op |-> "none", t |-> 0, page |-> 0, result |-> ""]
FetchIo(t, p, res) == [op |-> "fetch", t |-> t, page |-> p,
                       result |-> IF res.ok THEN "ok" ELSE res.msg]
SaveIo(t, ok) == [op |-> "save", t |-> t, page |-> 0,
                  result |-> IF ok THEN "ok" ELSE "db"]

(* The awaits at which a handler is suspended while other callbacks run:    *)
(* three reads and writes of the store, and the faFetch of GET /api/dump.   *)
StoreOps == {"statusNoJob", "statusDone", "restoreSave"}
PendOps == StoreOps \cup {"dump"}

RECURSIVE SumOver(_, _)
SumOver(f, S) ==
  IF S = {} THEN 0
  ELSE LET x == CHOOSE y \in S : TRUE IN f[x] + SumOver(f, S \ {x})

PendingCount ==
  SumOver([kp \in Keys \X PendOps |-> pending[kp[1]][kp[2]]], Keys \X PendOps)

StorePending ==
  SumOver([kp \in Keys \X StoreOps |-> pending[kp[1]][kp[2]]], Keys \X StoreOps)

Task(t) == tasks[t]
TaskIds == 1..Len(tasks)

(* Tasks of key k whose runRefreshJob call has not yet returned or thrown. *)
InFlight(k) == {t \in TaskIds : tasks[t].key = k /\ tasks[t].pc \notin {"ended", "crashed"}}

(* With the in-memory store an "await dbGetList/dbSaveList" resumes in the  *)
(* microtask queue: the suspended code runs on before any other callback.   *)
MemBusy ==
  /\ ~db
  /\ \/ StorePending > 0
     \/ \E t \in TaskIds : tasks[t].pc \in {"save1", "save2"}

----------------------------------------------------------------------------
(* runRefreshJob: the code between two suspension points.  Each operator    *)
(* below takes the task's index t and its record tk as the code has left it *)
(* so far, and sets tasks', jobs' and alive'.                               *)

(* The call has returned or thrown: its locals are gone; what it was called *)
(* with is kept to tell the calls apart.                                    *)
Returned(tk, pc) ==
  [key |-> tk.key, listUrl |-> tk.listUrl, pc |-> pc, page |-> 0, totalPages |-> 0,
   allFilms |-> << >>, i |-> 0, reqs |-> << >>]

(* A promise rejects and nothing handles the rejection: the promise of     *)
(* runRefreshJob(key, listUrl), called without await or catch, and the      *)
(* promise of an async route handler, which express drops.  What Node does  *)
(* then depends on its version: from version 15 on it prints the error and  *)
(* the process exits with code 1, before that it prints a warning and the   *)
(* process goes on.                                                         *)
Unhandled == alive' \in BOOLEAN

(* jobs[key] is undefined: the property access throws a TypeError inside    *)
(* the try, the catch block's own "jobs[key].status = ..." throws again and *)
(* the async function rejects.                                              *)
Crash(t, tk) ==
  /\ tasks' = [tasks EXCEPT ![t] = Returned(tk, "crashed")]
  /\ UNCHANGED jobs
  /\ Unhandled

(* jobs[key].progress = prog, then the await that leaves the task at pc. *)
SetProgress(t, tk, prog, pc) ==
  IF JobPresent(tk.key)
    THEN /\ jobs' = [jobs EXCEPT ![tk.key].progress = prog]
         /\ tasks' = [tasks EXCEPT ![t] = [tk EXCEPT !.pc = pc]]
         /\ UNCHANGED alive
    ELSE Crash(t, tk)

(* catch (err): jobs[key].status = "error"; jobs[key].error = err.message *)
Fail(t, tk, msg) ==
  IF JobPresent(tk.key)
    THEN /\ jobs' = [jobs EXCEPT ![tk.key].status = "error", ![tk.key].error = msg]
         /\ tasks' = [tasks EXCEPT ![t] = Returned(tk, "ended")]
         /\ UNCHANGED alive
    ELSE Crash(t, tk)

(* jobs[key].status = "done" *)
Finish(t, tk) ==
  IF JobPresent(tk.key)
    THEN /\ jobs' = [jobs EXCEPT ![tk.key].status = "done"]
         /\ tasks' = [tasks EXCEPT ![t] = Returned(tk, "ended")]
         /\ UNCHANGED alive
    ELSE Crash(t, tk)

(* faFetch(url) is called for page tk.page: the task is suspended in it     *)
(* until the GET of that page has answered (getFACookie, which never throws *)
(* and touches no job, and the read of the body are part of that wait).     *)
AfterFaFetchCall(tk) ==
  [tk EXCEPT !.pc = "fetch", !.reqs = Append(@, tk.page)]

AfterLoopNoReverse(t, tk) ==
  /\ tasks' = [tasks EXCEPT ![t] =
                 [tk EXCEPT !.allFilms = DedupeById(tk.allFilms), !.pc = "save1"]]
  /\ UNCHANGED <<jobs, alive>>

(* allFilms.reverse(), the filter by seen ids, then "await dbSaveList". *)
AfterLoop(t, tk) ==
  /\ tasks' = [tasks EXCEPT ![t] =
                 [tk EXCEPT !.allFilms = DedupeById(Reverse(tk.allFilms)), !.pc = "save1"]]
  /\ UNCHANGED <<jobs, alive>>

(* Math.min(totalPages, 30) *)
LastPage(totalPages) == Min(totalPages, PageCap)

LoopHeadNoDelay(t, tk) ==
  IF tk.page <= LastPage(tk.totalPages)
    THEN /\ tasks' = [tasks EXCEPT ![t] = AfterFaFetchCall(tk)]
         /\ UNCHANGED <<jobs, alive>>
    ELSE AfterLoop(t, tk)

(* The head of "for (page = 2; page <= Math.min(totalPages, 30); page++)". *)
LoopHead(t, tk) ==
  IF tk.page <= LastPage(tk.totalPages)
    THEN SetProgress(t, tk, Progress("page", tk.page, tk.totalPages), "sleep")
    ELSE AfterLoop(t, tk)

(* The head of "for (i = 0; i < allFilms.length; i++)"; i counts from 1. *)
EnrichHead(t, tk) ==
  IF tk.i <= Len(tk.allFilms)
    THEN SetProgress(t, tk, Progress("enrich", tk.i, Len(tk.allFilms)), "enrich")
    ELSE /\ tasks' = [tasks EXCEPT ![t] = [tk EXCEPT !.pc = "save2"]]
         /\ UNCHANGED <<jobs, alive>>

(* The page GET has answered with r. *)
TaskFetchReturn(t) ==
  /\ alive
  /\ ~MemBusy
  /\ tasks[t].pc = "fetch"
  /\ \E r \in HttpResponses :
       LET tk  == tasks[t]
           res == faFetch(r, tk.page)
           pf  == parseListPage(res.html)
       IN /\ io' = FetchIo(t, tk.page, res)
          /\ IF tk.page = 1
               THEN IF res.ok
                      THEN LoopHead(t, [tk EXCEPT !.allFilms = pf,
                                                  !.totalPages = parseTotalPages(res.html),
                                                  !.page = 2])
                      ELSE Fail(t, tk, res.msg)
               ELSE IF res.ok /\ Len(pf) # 0
                      THEN LoopHead(t, [tk EXCEPT !.allFilms = tk.allFilms \o pf,
                                                  !.page = tk.page + 1])
                      ELSE AfterLoop(t, tk)
  /\ resp' = NoResp
  /\ UNCHANGED <<db, TMDB_KEY, site, lists, pending, aux>>

(* The inter-page delay is over: faFetch of the next page is called. *)
TaskSleepReturn(t) ==
  /\ alive
  /\ ~MemBusy
  /\ tasks[t].pc = "sleep"
  /\ tasks' = [tasks EXCEPT ![t] = AfterFaFetchCall(tasks[t])]
  /\ resp' = NoResp
  /\ io' = NoIo
  /\ UNCHANGED <<alive, db, TMDB_KEY, site, lists, jobs, pending, aux>>

(* Whether a store operation can throw: only MongoDB operations do. *)
StoreOutcomes == IF db THEN BOOLEAN ELSE {TRUE}

(* The first dbSaveList has returned or thrown. *)
TaskSave1Return(t) ==
  /\ alive
  /\ tasks[t].pc = "save1"
  /\ \E ok \in StoreOutcomes :
       LET tk == tasks[t] IN
       /\ io' = SaveIo(t, ok)
       /\ IF ok
            THEN /\ lists' = [lists EXCEPT ![tk.key] = Doc(tk.allFilms, <<t, 1>>)]
                 /\ IF TMDB_KEY
                      THEN EnrichHead(t, [tk EXCEPT !.i = 1])
                      ELSE Finish(t, tk)
            ELSE /\ UNCHANGED lists
                 /\ Fail(t, tk, "db")
  /\ resp' = NoResp
  /\ UNCHANGED <<db, TMDB_KEY, site, pending, aux>>

EnrichOutcomes == {"data", "empty", "invalid_key"}

(* dbSaveList keeps the array it is given: with the in-memory store         *)
(* "mem.lists[key] = doc" holds allFilms itself, not a copy.  For as long   *)
(* as the document of the key is the one the first save of task t wrote,    *)
(* an assignment to allFilms[i] is an assignment to the stored films.       *)
SharesArray(t) ==
  /\ ~db
  /\ lists[tasks[t].key].present
  /\ lists[tasks[t].key].ts = <<t, 1>>

TaskEnrichReturnMarksMatches(t) ==
  /\ alive
  /\ ~MemBusy
  /\ tasks[t].pc = "enrich"
  /\ \E extra \in EnrichOutcomes :
       LET films == [tasks[t].allFilms EXCEPT ![tasks[t].i] =
                       [@ EXCEPT !.enriched = (extra = "data"),
                                 !.tmdb = (extra = "data")]]
       IN /\ tasks' = [tasks EXCEPT ![t] = [@ EXCEPT !.pc = "pause", !.allFilms = films]]
          /\ lists' = IF SharesArray(t)
                        THEN [lists EXCEPT ![tasks[t].key].films = films]
                        ELSE lists
  /\ resp' = NoResp
  /\ io' = NoIo
  /\ UNCHANGED <<alive, db, TMDB_KEY, site, jobs, pending, aux>>

(* tmdbEnrich(allFilms[i]) has returned; the record is merged and marked in *)
(* allFilms[i], then "await sleep(80)".                                     *)
TaskEnrichReturn(t) ==
  /\ alive
  /\ ~MemBusy
  /\ tasks[t].pc = "enrich"
  /\ \E extra \in EnrichOutcomes :
       LET films == [tasks[t].allFilms EXCEPT ![tasks[t].i] =
                       [@ EXCEPT !.enriched = TRUE, !.tmdb = (extra = "data")]]
       IN /\ tasks' = [tasks EXCEPT ![t] = [@ EXCEPT !.pc = "pause", !.allFilms = films]]
          /\ lists' = IF SharesArray(t)
                        THEN [lists EXCEPT ![tasks[t].key].films = films]
                        ELSE lists
  /\ resp' = NoResp
  /\ io' = NoIo
  /\ UNCHANGED <<alive, db, TMDB_KEY, site, jobs, pending, aux>>

(* sleep(80) is over: i++ and the loop head. *)
TaskPauseReturn(t) ==
  /\ alive
  /\ ~MemBusy
  /\ tasks[t].pc = "pause"
  /\ EnrichHead(t, [tasks[t] EXCEPT !.i = @ + 1])
  /\ resp' = NoResp
  /\ io' = NoIo
  /\ UNCHANGED <<db, TMDB_KEY, site, lists, pending, aux>>

(* The final dbSaveList has returned or thrown. *)
TaskSave2Return(t) ==
  /\ alive
  /\ tasks[t].pc = "save2"
  /\ \E ok \in StoreOutcomes :
       LET tk == tasks[t] IN
       /\ io' = SaveIo(t, ok)
       /\ IF ok
            THEN /\ lists' = [lists EXCEPT ![tk.key] = Doc(tk.allFilms, <<t, 2>>)]
                 /\ Finish(t, tk)
            ELSE /\ UNCHANGED lists
                 /\ Fail(t, tk, "db")
  /\ resp' = NoResp
  /\ UNCHANGED <<db, TMDB_KEY, site, pending, aux>>

----------------------------------------------------------------------------
(* The HTTP handlers, for a url parameter that decodes to the list URL of   *)
(* key k.                                                                   *)

(* A response: the handler, the key of its url, the branch of the handler   *)
(* that sent it, and the fields of its JSON body.                           *)
Reply(op, k, branch, status, films, progress, error) ==
  [op |-> op, key |-> k, branch |-> branch, status |-> status, films |-> films,
   progress |-> progress, error |-> error]

Suspend(k, op) == pending' = [pending EXCEPT ![k][op] = @ + 1]
Resume(k, op)  == pending' = [pending EXCEPT ![k][op] = @ - 1]

AlreadyRunningNever(k) == FALSE

(* jobs[key] && jobs[key].status === "running" *)
AlreadyRunning(k) == jobs[k].status = "running"

(* runRefreshJob(key, listUrl) up to its first await *)
NewTask(k, u) ==
  AfterFaFetchCall([key |-> k, listUrl |-> u, pc |-> "start", page |-> 1, totalPages |-> 0,
                    allFilms |-> << >>, i |-> 0, reqs |-> << >>])

(* POST /api/refresh *)
Refresh(k) ==
  /\ alive
  /\ ~MemBusy
  /\ IF AlreadyRunning(k)
       THEN /\ resp' = Reply("refresh", k, "running", "running", << >>, NoProgress, "")
            /\ UNCHANGED <<jobs, tasks>>
       ELSE /\ Len(tasks) < MaxTasks
            /\ jobs' = [jobs EXCEPT ![k] = [NewJob EXCEPT !.progress = Progress("page", 1, 0)]]
            /\ tasks' = Append(tasks, NewTask(k, RequestedUrl))
            /\ resp' = Reply("refresh", k, "start", "started", << >>, NoProgress, "")
  /\ io' = NoIo
  /\ UNCHANGED <<alive, db, TMDB_KEY, site, lists, pending, aux>>

IdleReplyAlwaysIdle(k) ==
  Reply("status", k, "nojob", "idle", << >>, NoProgress, "")

(* What the "no job" branch of the status handler answers. *)
IdleReply(k) ==
  IF lists[k].present
    THEN Reply("status", k, "nojob", "done", lists[k].films, NoProgress, "")
    ELSE Reply("status", k, "nojob", "idle", << >>, NoProgress, "")

(* GET /api/refresh-status up to its first suspension point.  "const job =  *)
(* jobs[key]" is read here; the "no job" and the "done" branch then wait at *)
(* their "await dbGetList(key)" and go on in StatusNoJobReturn and in       *)
(* StatusDoneReturn.                                                        *)
Status(k) ==
  /\ alive
  /\ ~MemBusy
  /\ LET job == jobs[k] IN
     CASE job.status = "absent" ->
            /\ PendingCount < MaxPending
            /\ Suspend(k, "statusNoJob")
            /\ resp' = NoResp
       [] job.status = "running" ->
            /\ resp' = Reply("status", k, "running", "running", << >>, job.progress, "")
            /\ UNCHANGED pending
       [] job.status = "error" ->
            /\ resp' = Reply("status", k, "error", "error", << >>, NoProgress, job.error)
            /\ UNCHANGED pending
       [] job.status = "done" ->
            /\ PendingCount < MaxPending
            /\ Suspend(k, "statusDone")
            /\ resp' = NoResp
  /\ io' = NoIo
  /\ UNCHANGED <<alive, db, TMDB_KEY, site, lists, jobs, tasks, aux>>

(* The status handler resumes in its "no job" branch: the reply is made of  *)
(* what dbGetList answered, jobs is not read again.  When dbGetList throws  *)
(* no reply is sent and the handler's promise rejects.                      *)
StatusNoJobReturn(k) ==
  /\ alive
  /\ pending[k]["statusNoJob"] > 0
  /\ Resume(k, "statusNoJob")
  /\ \E ok \in StoreOutcomes :
       IF ok
         THEN resp' = IdleReply(k) /\ UNCHANGED alive
         ELSE resp' = NoResp /\ Unhandled
  /\ io' = NoIo
  /\ UNCHANGED <<db, TMDB_KEY, site, lists, jobs, tasks, aux>>

StatusDoneReturnKeepsJob(k) ==
  /\ alive
  /\ pending[k]["statusDone"] > 0
  /\ Resume(k, "statusDone")
  /\ \E ok \in StoreOutcomes :
       IF ok
         THEN /\ resp' = Reply("status", k, "done", "done", lists[k].films, NoProgress, "")
              /\ UNCHANGED <<jobs, alive>>
         ELSE resp' = NoResp /\ UNCHANGED jobs /\ Unhandled
  /\ io' = NoIo
  /\ UNCHANGED <<db, TMDB_KEY, site, lists, tasks, aux>>

(* The status handler resumes in its "done" branch: delete jobs[key], then  *)
(* the reply with the films read (none when there is no document).  When    *)
(* dbGetList throws nothing is deleted, no reply is sent and the handler's  *)
(* promise rejects.                                                         *)
StatusDoneReturn(k) ==
  /\ alive
  /\ pending[k]["statusDone"] > 0
  /\ Resume(k, "statusDone")
  /\ \E ok \in StoreOutcomes :
       IF ok
         THEN /\ jobs' = [jobs EXCEPT ![k] = NoJob]
              /\ resp' = Reply("status", k, "done", "done", lists[k].films, NoProgress, "")
              /\ UNCHANGED alive
         ELSE resp' = NoResp /\ UNCHANGED jobs /\ Unhandled
  /\ io' = NoIo
  /\ UNCHANGED <<db, TMDB_KEY, site, lists, tasks, aux>>

(* GET /api/list: awaits dbGetList and only replies; one step, taken when   *)
(* the store answers.  When dbGetList throws no reply is sent and the       *)
(* handler's promise rejects.                                               *)
List(k) ==
  /\ alive
  /\ ~MemBusy
  /\ \E ok \in StoreOutcomes :
       IF ~ok
         THEN resp' = NoResp /\ UNCHANGED tasks /\ Unhandled
         ELSE /\ resp' = IF lists[k].present
                           THEN Reply("list", k, "hit", "cached", lists[k].films,
                                      NoProgress, "")
                           ELSE Reply("list", k, "miss", "empty", << >>, NoProgress, "")
              /\ UNCHANGED <<tasks, alive>>
  /\ io' = NoIo
  /\ UNCHANGED <<db, TMDB_KEY, site, lists, jobs, pending, aux>>

(* What GET /api/dump makes of its url parameter: none, a text that atob    *)
(* rejects, or a URL.                                                       *)
DumpParams == {"missing", "undecodable", "url"}

(* GET /api/dump up to "await faFetch(listUrl)".  The url is checked for    *)
(* its form only, not for its site, and no job or task is involved; k is    *)
(* the key of the URL, by which this specification names its requests.      *)
Dump(k, param) ==
  /\ alive
  /\ ~MemBusy
  /\ IF param = "missing"
       THEN /\ resp' = Reply("dump", "", "invalid", "400", << >>, NoProgress, "Falta url")
            /\ UNCHANGED pending
     ELSE IF param = "undecodable"
       THEN /\ resp' = Reply("dump", "", "invalid", "400", << >>, NoProgress, "URL invalida")
            /\ UNCHANGED pending
     ELSE /\ PendingCount < MaxPending
          /\ Suspend(k, "dump")
          /\ resp' = NoResp
  /\ io' = NoIo
  /\ UNCHANGED <<alive, db, TMDB_KEY, site, lists, jobs, tasks, aux>>

(* The GET of the page has answered with r: the handler replies with what   *)
(* it found in the page, or, when faFetch threw, with HTTP 500 and the      *)
(* message of the error.                                                    *)
DumpReturn(k) ==
  /\ alive
  /\ ~MemBusy
  /\ pending[k]["dump"] > 0
  /\ Resume(k, "dump")
  /\ \E r \in HttpResponses :
       LET res == faFetch(r, 1)
       IN /\ io' = FetchIo(0, 1, res)
          /\ resp' = IF res.ok
                       THEN Reply("dump", k, "page", "200", << >>, NoProgress, "")
                       ELSE Reply("dump", k, "failed", "500", << >>, NoProgress, res.msg)
  /\ UNCHANGED <<alive, db, TMDB_KEY, site, lists, jobs, tasks, aux>>

(* The films arrays a client posts to /api/restore: its localStorage copy,  *)
(* stored as sent (the handler checks Array.isArray(films) only).           *)
RestoreBodies ==
  { <<Film(1, "a"), Film(1, "b")>> }

(* POST /api/restore with a films array.  Its "existing = await            *)
(* dbGetList(key)" only reads: the handler is one step up to the answer of  *)
(* the store.  With a document it replies {ok: true}; without one it calls  *)
(* dbSaveList and is suspended there; when the read throws no reply is sent *)
(* and the handler's promise rejects.                                       *)
Restore(k) ==
  /\ alive
  /\ ~MemBusy
  /\ \E ok \in StoreOutcomes :
       IF ~ok
         THEN resp' = NoResp /\ UNCHANGED pending /\ Unhandled
         ELSE /\ IF lists[k].present
                   THEN /\ resp' = Reply("restore", k, "kept", "ok", << >>, NoProgress, "")
                        /\ UNCHANGED pending
                   ELSE /\ PendingCount < MaxPending
                        /\ Suspend(k, "restoreSave")
                        /\ resp' = NoResp
              /\ UNCHANGED alive
  /\ io' = NoIo
  /\ UNCHANGED <<db, TMDB_KEY, site, lists, jobs, tasks, aux>>

(* dbSaveList(key, films, listUrl) of the restore handler has returned or   *)
(* thrown.  The body of the request is read here: nothing reads it between  *)
(* the request and this write.  When dbSaveList throws no reply is sent and *)
(* the handler's promise rejects.                                           *)
RestoreSaveReturn(k) ==
  /\ alive
  /\ pending[k]["restoreSave"] > 0
  /\ Resume(k, "restoreSave")
  /\ \E ok \in StoreOutcomes, films \in RestoreBodies :
       IF ok
         THEN /\ lists' = [lists EXCEPT ![k] = Doc(films, <<0, 1>>)]
              /\ resp' = Reply("restore", k, "saved", "ok", << >>, NoProgress, "")
              /\ UNCHANGED alive
         ELSE UNCHANGED lists /\ resp' = NoResp /\ Unhandled
  /\ io' = NoIo
  /\ UNCHANGED <<db, TMDB_KEY, site, jobs, tasks, aux>>

----------------------------------------------------------------------------
(* getFACookie and faFetch, one call followed on its own *)

CookieMaxAge == 3600000     \* 60 * 60 * 1000

NoAnswer == [status |-> 0, len |-> 0, challenge |-> FALSE]

(* No call before this one. *)
NoPrev == [id |-> 0, outcome |-> "", end |-> 0]

NoCall == [op |-> "none", pc |-> "idle", id |-> 0, reqs |-> << >>, hit |-> FALSE,
           got |-> "", answer |-> NoAnswer, result |-> "", data |-> "",
           at |-> 0, mr |-> 0, tr |-> 0, best |-> "", outcome |-> "", prev |-> NoPrev,
           found |-> <<0, 0>>, cand |-> << >>, pick |-> 0]

NoEntry == [present |-> FALSE, data |-> "", ts |-> 0]

(* No marks document for the key. *)
NoMarks == [present |-> FALSE, marks |-> << >>]

(* No function has been applied. *)
NoCalc == [op |-> "none"]

(* The ids of the films tmdbEnrich is called for. *)
EnrichIds == {1, 2}

(* The process has just started: no cookie, empty caches. *)
AuxInit ==
  /\ now = 0
  /\ faCookie = ""
  /\ faCookieTs = 0
  /\ tmdbCache = [id \in EnrichIds |-> NoEntry]
  /\ tmdbStore = [id \in EnrichIds |-> NoEntry]
  /\ call = NoCall
  /\ marks = [k \in Keys |-> NoMarks]
  /\ calc = NoCalc

(* Time passes: the clock moves on to a later one of the instants I. *)
Tick(I) ==
  /\ \E t \in I : t > now /\ now' = t
  /\ UNCHANGED <<alive, db, TMDB_KEY, site, lists, jobs, tasks, pending, resp, io, marks, calc>>
  /\ UNCHANGED <<faCookie, faCookieTs, tmdbCache, tmdbStore, call>>

CookieFreshNever == FALSE

(* faCookie && Date.now() - faCookieTs < 60 * 60 * 1000 *)
CookieFresh == faCookie # "" /\ now - faCookieTs < CookieMaxAge

(* faFetch(url) is called: getFACookie returns at once with a fresh cookie  *)
(* and the page GET is sent, or it requests the landing page first.         *)
FetchCall ==
  /\ call.pc \in {"idle", "returned"}
  /\ call' = IF CookieFresh
               THEN [NoCall EXCEPT !.op = "faFetch", !.pc = "page", !.id = 1,
                                   !.reqs = <<"page">>, !.hit = TRUE]
               ELSE [NoCall EXCEPT !.op = "faFetch", !.pc = "landing", !.id = 1,
                                   !.reqs = <<"landing">>]
  /\ UNCHANGED <<alive, db, TMDB_KEY, site, lists, jobs, tasks, pending, resp, io, marks, calc>>
  /\ UNCHANGED <<now, faCookie, faCookieTs, tmdbCache, tmdbStore>>

Tokens == {"c1", "c2"}

(* The landing request throws, answers without a usable set-cookie header,  *)
(* or answers with cookies.                                                 *)
LandingOutcomes == {"throws", "nocookie"} \cup Tokens

(* The landing request is over: "if (c) { faCookie = c; faCookieTs = now }",*)
(* errors are caught; faFetch goes on and sends the page GET.               *)
LandingReturn ==
  /\ call.op = "faFetch" /\ call.pc = "landing"
  /\ \E o \in LandingOutcomes :
       /\ IF o \in Tokens
            THEN faCookie' = o /\ faCookieTs' = now
            ELSE UNCHANGED <<faCookie, faCookieTs>>
       /\ call' = [call EXCEPT !.pc = "page", !.reqs = Append(@, "page"), !.got = o]
  /\ UNCHANGED <<alive, db, TMDB_KEY, site, lists, jobs, tasks, pending, resp, io, marks, calc>>
  /\ UNCHANGED <<now, tmdbCache, tmdbStore>>

(* What the page GET can answer.  A body that holds a challenge marker is   *)
(* not empty.                                                               *)
FetchResponses ==
  { r \in [status : {200, 201, 403, 404, 429, 503}, len : {0, 199, 200},
           challenge : BOOLEAN] : r.challenge => r.len > 0 }

(* The page GET has answered: faFetch returns the html or throws. *)
PageReturn ==
  /\ call.op = "faFetch" /\ call.pc = "page"
  /\ \E r \in FetchResponses :
       LET res == faFetch(r, call.id)
       IN call' = [call EXCEPT !.pc = "returned", !.answer = r, !.got = "",
                               !.result = IF res.ok THEN "html" ELSE res.msg]
  /\ UNCHANGED <<alive, db, TMDB_KEY, site, lists, jobs, tasks, pending, resp, io, marks, calc>>
  /\ UNCHANGED <<now, faCookie, faCookieTs, tmdbCache, tmdbStore>>

FetchInstants ==
  {1, CookieMaxAge - 1, CookieMaxAge, CookieMaxAge + 1, 2 * CookieMaxAge}

----------------------------------------------------------------------------
(* tmdbEnrich, one call followed on its own *)

TmdbTtl == 604800000        \* 7 * 24 * 60 * 60 * 1000
AcceptScore == 40           \* best.score < 40

(* film.year (0: none) and film.type of the films enriched. *)
FilmYear(id) == IF id = 1 THEN 2000 ELSE 0
FilmType(id) == IF id = 1 THEN "movie" ELSE "series"

(* A search result: how its normalized title stands to the film's           *)
(* ("exact", "affix": the film's title is a prefix or suffix word group,    *)
(* "contains", "none") and the year of its release date (0: none).          *)
Result(rel, year) == [rel |-> rel, year |-> year]

Abs(x) == IF x < 0 THEN -x ELSE x

scoreMatchMissingYearAsExact(r, faYear) ==
  LET title == CASE r.rel = "exact"    -> 100
                 [] r.rel = "affix"    -> 30
                 [] r.rel = "contains" -> 10
                 [] OTHER              -> -60
      year  == IF faYear = 0 THEN 0
               ELSE IF r.year = faYear \/ r.year = 0 THEN 50
               ELSE IF Abs(r.year - faYear) <= 1 THEN 20
               ELSE -40
  IN title + year

(* scoreMatch(result, film.title, film.year) *)
scoreMatch(r, faYear) ==
  LET title == CASE r.rel = "exact"    -> 100
                 [] r.rel = "affix"    -> 30
                 [] r.rel = "contains" -> 10
                 [] OTHER              -> -60
      year  == IF faYear = 0 THEN 0
               ELSE IF r.year = faYear THEN 50
               ELSE IF r.year # 0 /\ Abs(r.year - faYear) <= 1 THEN 20
               ELSE IF r.year # 0 THEN -40
               ELSE 0
  IN title + year

(* Titles are sequences of characters.  The characters stand for a         *)
(* lower-case letter, an accented capital, white space and punctuation.     *)
Chars == {"a", "É", " ", "!"}

(* toLowerCase, normalize("NFD") and the removal of the combining marks and *)
(* of [^\w\s], on one character.                                            *)
FoldChar(ch) ==
  CASE ch = "É" -> <<"e">>
    [] ch = "!" -> << >>
    [] OTHER    -> <<ch>>

RECURSIVE Fold(_)
Fold(s) == IF s = << >> THEN << >> ELSE FoldChar(s[1]) \o Fold(Tail(s))

(* replace(/\s+/g, " ") *)
RECURSIVE Collapse(_)
Collapse(s) ==
  IF Len(s) < 2 THEN s
  ELSE IF s[1] = " " /\ s[2] = " " THEN Collapse(Tail(s))
  ELSE <<s[1]>> \o Collapse(Tail(s))

(* trim() of a string whose white space is collapsed *)
Trim(s) ==
  LET a == IF s # << >> /\ s[1] = " " THEN Tail(s) ELSE s
  IN IF a # << >> /\ a[Len(a)] = " " THEN SubSeq(a, 1, Len(a) - 1) ELSE a

normalizeTitle(s) == Trim(Collapse(Fold(s)))

StartsWith(t, p) == Len(p) <= Len(t) /\ SubSeq(t, 1, Len(p)) = p
EndsWith(t, p) == Len(p) <= Len(t) /\ SubSeq(t, Len(t) - Len(p) + 1, Len(t)) = p
Includes(t, p) == \E i \in 0..(Len(t) - Len(p)) : SubSeq(t, i + 1, i + Len(p)) = p

(* The branch of the title comparison of scoreMatch that the normalized     *)
(* titles take.                                                             *)
TitleRelation(tmdbT, faT) ==
  IF tmdbT = faT THEN "exact"
  ELSE IF StartsWith(tmdbT, faT \o <<" ">>) \/ EndsWith(tmdbT, <<" ">> \o faT) THEN "affix"
  ELSE IF Includes(tmdbT, faT) THEN "contains"
  ELSE "none"

(* scoreMatch(result, faTitle, faYear) on titles as they come *)
scoreMatchOf(result, faTitle, faYear) ==
  scoreMatch(Result(TitleRelation(normalizeTitle(result.title), normalizeTitle(faTitle)),
                    result.year),
             faYear)

(* The candidates of both searches with their scores, movies first, and the *)
(* bonus of 10 for the media type of the film.                              *)
Candidates(md, td, id) ==
  LET want == IF FilmType(id) = "series" THEN "series" ELSE "movie"
      cand(r, mt) == [mediaType |-> mt,
                      score |-> scoreMatch(r, FilmYear(id)) + (IF mt = want THEN 10 ELSE 0)]
  IN [i \in 1..Len(md) |-> cand(md[i], "movie")]
       \o [i \in 1..Len(td) |-> cand(td[i], "series")]

(* candidates.sort((a, b) => b.score - a.score)[0]: the first candidate of  *)
(* the highest score (the sort is stable); 0 when there is none.            *)
BestIndex(c) ==
  IF c = << >> THEN 0
  ELSE CHOOSE i \in 1..Len(c) :
         /\ \A j \in 1..Len(c) : c[j].score <= c[i].score
         /\ \A j \in 1..(i - 1) : c[j].score < c[i].score

ResultLists ==
  { << >>,
    <<Result("exact", 2000)>>,
    <<Result("contains", 0)>>,
    <<Result("affix", 2001), Result("exact", 1990)>>,
    <<Result("none", 0), Result("none", 0), Result("none", 0), Result("none", 0),
      Result("none", 0), Result("exact", 2000)>> }

(* What a search request can come to: the fetch rejects (status -1), or it  *)
(* answers with a status and, when ok, a results array.                     *)
SearchThrows == [status |-> -1, results |-> << >>]
SearchAnswers ==
  {SearchThrows} \cup [status : {401, 500}, results : {<< >>}]
                \cup [status : {200}, results : ResultLists]

ResultsOfUnsliced(a) == IF HttpOk(a) THEN a.results ELSE << >>

(* mr.ok ? mr.json() : { results: [] }, then slice(0, 5) *)
ResultsOf(a) == IF HttpOk(a) THEN SubSeq(a.results, 1, Min(5, Len(a.results))) ELSE << >>

CacheEntry(data) == [present |-> TRUE, data |-> data, ts |-> now]

(* The call returns: what it returned and how it came to it. *)
Ended(c, result, outcome) ==
  [c EXCEPT !.pc = "returned", !.result = result, !.outcome = outcome]

(* tmdbCache[cacheKey] = { data, ts: Date.now() }, then the call of         *)
(* dbSaveTmdb(film.id, data).  With the in-memory store mem.tmdb is written *)
(* at once and the await resumes in the microtask queue: the call returns   *)
(* data in this step.  With MongoDB the call is suspended at the await,     *)
(* with the cache written and the collection not yet, and goes on in        *)
(* StoreReturn.                                                             *)
Remember(c, data, outcome) ==
  /\ tmdbCache' = [tmdbCache EXCEPT ![c.id] = CacheEntry(data)]
  /\ IF db
       THEN /\ call' = [c EXCEPT !.pc = "storing", !.data = data, !.outcome = outcome]
            /\ UNCHANGED tmdbStore
       ELSE /\ tmdbStore' = [tmdbStore EXCEPT ![c.id] = CacheEntry(data)]
            /\ call' = Ended([c EXCEPT !.data = data], data, outcome)

(* updateOne of dbSaveTmdb has answered or thrown: the call returns data,   *)
(* or {} from the catch block.  The document carries the Date.now() of the  *)
(* call of dbSaveTmdb.                                                      *)
StoreReturn ==
  /\ call.op = "tmdbEnrich" /\ call.pc = "storing"
  /\ \E ok \in StoreOutcomes :
       IF ok
         THEN /\ tmdbStore' = [tmdbStore EXCEPT ![call.id] =
                                 [present |-> TRUE, data |-> call.data, ts |-> call.at]]
              /\ call' = Ended(call, call.data, call.outcome)
         ELSE /\ UNCHANGED tmdbStore
              /\ call' = Ended(call, "empty", call.outcome)
  /\ UNCHANGED <<alive, db, TMDB_KEY, site, lists, jobs, tasks, pending, resp, io, marks, calc>>
  /\ UNCHANGED <<now, faCookie, faCookieTs, tmdbCache>>

CacheFreshUnlessEmpty(id) ==
  /\ tmdbCache[id].present /\ now - tmdbCache[id].ts < TmdbTtl
  /\ tmdbCache[id].data # "empty"

(* tmdbCache[cacheKey] && Date.now() - tmdbCache[cacheKey].ts < 7 days *)
CacheFresh(id) ==
  tmdbCache[id].present /\ now - tmdbCache[id].ts < TmdbTtl

(* tmdbEnrich(film) is called: it returns at once without a key or with a   *)
(* fresh cache entry, else it sends both searches.                          *)
EnrichCall(id) ==
  /\ call.pc \in {"idle", "returned"}
  /\ LET prev == IF call.op = "tmdbEnrich"
                   THEN [id |-> call.id, outcome |-> call.outcome, end |-> call.at]
                   ELSE NoPrev
         c    == [NoCall EXCEPT !.op = "tmdbEnrich", !.id = id, !.at = now, !.prev = prev]
     IN call' = IF ~TMDB_KEY THEN Ended(c, "no_key", "no_key")
                ELSE IF CacheFresh(id)
                  THEN Ended([c EXCEPT !.hit = TRUE], tmdbCache[id].data, "hit")
                ELSE [c EXCEPT !.pc = "search", !.reqs = <<"search/movie", "search/tv">>]
  /\ UNCHANGED <<alive, db, TMDB_KEY, site, lists, jobs, tasks, pending, resp, io, marks, calc>>
  /\ UNCHANGED <<now, faCookie, faCookieTs, tmdbCache, tmdbStore>>

(* if (mr.status === 401 || tr.status === 401) return { _tmdb_error: "invalid_key" } *)
InvalidKey(c) ==
  /\ call' = Ended(c, "invalid_key", "invalid_key")
  /\ UNCHANGED <<tmdbCache, tmdbStore>>

(* Promise.all of both searches has settled. *)
SearchReturn ==
  /\ call.op = "tmdbEnrich" /\ call.pc = "search"
  /\ \E mr, tr \in SearchAnswers :
       LET c    == [call EXCEPT !.mr = mr.status, !.tr = tr.status, !.at = now]
           cand == Candidates(ResultsOf(mr), ResultsOf(tr), call.id)
           b    == BestIndex(cand)
           d    == [c EXCEPT !.found = <<Len(mr.results), Len(tr.results)>>,
                             !.cand = cand, !.pick = b]
       IN IF mr.status = -1 \/ tr.status = -1
            THEN /\ call' = Ended(c, "empty", "exception")
                 /\ UNCHANGED <<tmdbCache, tmdbStore>>
          ELSE IF mr.status = 401 \/ tr.status = 401
            THEN InvalidKey(c)
          ELSE IF b = 0 \/ cand[b].score < AcceptScore
            THEN Remember(d, "empty", "nomatch")
          ELSE /\ call' = [d EXCEPT !.pc = "detail", !.best = cand[b].mediaType,
                                    !.reqs = Append(@, "detail")]
               /\ UNCHANGED <<tmdbCache, tmdbStore>>
  /\ UNCHANGED <<alive, db, TMDB_KEY, site, lists, jobs, tasks, pending, resp, io, marks, calc>>
  /\ UNCHANGED <<now, faCookie, faCookieTs>>

(* The detail request rejects, or answers: ok with the detail, not ok and   *)
(* the search result stands in for it.                                      *)
DetailOutcomes == {"throws", "ok", "notok"}

(* The detail request has settled. *)
DetailReturn ==
  /\ call.op = "tmdbEnrich" /\ call.pc = "detail"
  /\ \E o \in DetailOutcomes :
       LET c == [call EXCEPT !.got = o, !.at = now]
       IN IF o = "throws"
            THEN /\ call' = Ended(c, "empty", "exception")
                 /\ UNCHANGED <<tmdbCache, tmdbStore>>
            ELSE Remember(c, "data", "match")
  /\ UNCHANGED <<alive, db, TMDB_KEY, site, lists, jobs, tasks, pending, resp, io, marks, calc>>
  /\ UNCHANGED <<now, faCookie, faCookieTs>>

EnrichInstants == {1, TmdbTtl - 1, TmdbTtl, TmdbTtl + 1}

----------------------------------------------------------------------------
(* The upstream sites of the orchestrator specification *)

NoSuchPage == << >>

(* A list of one page with two films, a list of two pages with one film    *)
(* each, and a list whose page has no film.                                 *)
SmallSites ==
  { [pager |-> {},     head |-> << <<Film(1, "a"), Film(2, "a")>> >>,     tail |-> NoSuchPage],
    [pager |-> {1, 2}, head |-> << <<Film(1, "a")>>, <<Film(2, "a")>> >>, tail |-> NoSuchPage],
    [pager |-> {},     head |-> << << >> >>,                             tail |-> NoSuchPage] }

(* A list of one page with one film. *)
OneRecordSite ==
  [pager |-> {}, head |-> << <<Film(1, "a")>> >>, tail |-> NoSuchPage]

(* The lists scraped here.  The list of two pages is scraped without a      *)
(* metadata key, and with MongoDB and a metadata key the list has one       *)
(* record at most; the page loop followed by the enrichment of several      *)
(* records, with either store, is in the specification of one job below.    *)
InitSites(mongo, key) ==
  IF mongo /\ key
    THEN {s \in SmallSites \cup {OneRecordSite} : s.pager = {} /\ Len(s.head[1]) <= 1}
    ELSE {s \in SmallSites : key => s.pager = {}}

(* The process has just started. *)
Init ==
  /\ alive = TRUE
  /\ db \in BOOLEAN
  /\ TMDB_KEY \in BOOLEAN
  /\ site \in InitSites(db, TMDB_KEY)
  /\ lists = [k \in Keys |-> NoDoc]
  /\ jobs = [k \in Keys |-> NoJob]
  /\ tasks = << >>
  /\ pending = [k \in Keys |-> [op \in PendOps |-> 0]]
  /\ resp = NoResp
  /\ io = NoIo
  /\ AuxInit

(* The requests of the routes of a job and the callbacks of its tasks. *)
JobNext ==
  \/ \E k \in RequestedKeys : Refresh(k)
  \/ \E k \in RequestedKeys : Status(k)
  \/ \E k \in RequestedKeys : StatusNoJobReturn(k)
  \/ \E k \in RequestedKeys : StatusDoneReturn(k)
  \/ \E k \in RequestedKeys : List(k)
  \/ \E k \in RequestedKeys : Restore(k)
  \/ \E k \in RequestedKeys : RestoreSaveReturn(k)
  \/ \E t \in TaskIds : TaskFetchReturn(t)
  \/ \E t \in TaskIds : TaskSleepReturn(t)
  \/ \E t \in TaskIds : TaskSave1Return(t)
  \/ \E t \in TaskIds : TaskEnrichReturn(t)
  \/ \E t \in TaskIds : TaskPauseReturn(t)
  \/ \E t \in TaskIds : TaskSave2Return(t)

(* With them, the diagnostic route for a well-formed url; what it answers   *)
(* to the other url parameters is followed with the url checks of the       *)
(* refresh route.                                                           *)
Next ==
  \/ JobNext
  \/ \E k \in RequestedKeys : Dump(k, "url")
  \/ \E k \in RequestedKeys : DumpReturn(k)

Spec == Init /\ [][Next]_vars

----------------------------------------------------------------------------
(* The specification of one job over richer sites: lists of up to 99 pages, *)
(* pages with several records, ids that come back on a later page, pages    *)
(* without records.                                                         *)

MaxJobTasks == 1       \* runRefreshJob invocations in one behaviour

JobHeads ==
  { <<<<Film(1, "a"), Film(2, "a")>>, <<Film(3, "a"), Film(1, "b")>>>>,
    <<<<Film(3, "a"), Film(1, "b")>>, <<Film(1, "a"), Film(2, "a")>>>>,
    <<<<Film(1, "a"), Film(2, "a")>>, << >>>>,
    <<<< >>, <<Film(1, "a"), Film(2, "a")>>>> }

JobSites ==
  [ pager : { {}, {1, 2, 3}, {2, 2024} },
    head  : JobHeads,
    tail  : { << >>, <<Film(3, "b")>> } ]
  \cup
  [ pager : { {1, 2, 31} },
    head  : { <<<<Film(1, "a"), Film(2, "a")>>, <<Film(3, "a"), Film(1, "b")>>>> },
    tail  : { <<Film(3, "b")>> } ]

InitJob ==
  /\ alive = TRUE
  /\ db \in BOOLEAN
  /\ TMDB_KEY \in BOOLEAN
  /\ site \in JobSites
  /\ lists = [k \in Keys |-> NoDoc]
  /\ jobs = [k \in Keys |-> NoJob]
  /\ tasks = << >>
  /\ pending = [k \in Keys |-> [op \in PendOps |-> 0]]
  /\ resp = NoResp
  /\ io = NoIo
  /\ AuxInit

(* One job and the handlers that read and write what it writes. *)
NextJob == JobNext /\ Len(tasks') <= MaxJobTasks

SpecJob == InitJob /\ [][NextJob]_vars

----------------------------------------------------------------------------
(* The specification of faFetch calls, one after the other *)

InitFetch ==
  /\ alive = TRUE
  /\ db = FALSE
  /\ TMDB_KEY = FALSE
  /\ site \in SmallSites
  /\ lists = [k \in Keys |-> NoDoc]
  /\ jobs = [k \in Keys |-> NoJob]
  /\ tasks = << >>
  /\ pending = [k \in Keys |-> [op \in PendOps |-> 0]]
  /\ resp = NoResp
  /\ io = NoIo
  /\ AuxInit

NextFetch ==
  \/ FetchCall
  \/ LandingReturn
  \/ PageReturn
  \/ Tick(FetchInstants)

SpecFetch == InitFetch /\ [][NextFetch]_vars

----------------------------------------------------------------------------
(* Properties of the orchestrator *)

Terminal == {"done", "error"}

StartStep(k) == resp'.op = "refresh" /\ resp'.key = k /\ resp'.branch = "start"

(* A step of one of the tasks launched earlier. *)
TaskStep == Len(tasks') = Len(tasks) /\ tasks' # tasks

(* Task t returns or throws in this step. *)
TaskEnds(t) ==
  /\ tasks[t].pc \notin {"ended", "crashed"}
  /\ tasks'[t].pc \in {"ended", "crashed"}

(* C1: for every list key at most one runRefreshJob task is in flight, in   *)
(* every reachable state.                                                   *)
C1_SingleFlight == \A k \in Keys : Cardinality(InFlight(k)) <= 1

(* C2: a POST /api/refresh for a key whose job is running answers "running" *)
(* and changes no job entry, task, snapshot or suspended handler; and it is *)
(* not queued: a task is launched only by the step of a refresh request     *)
(* that found no running job and answered "started".                        *)
C2_RunningStartIsNoOp ==
  [][ /\ \A k \in Keys :
           (jobs[k].status = "running" /\ resp'.op = "refresh" /\ resp'.key = k)
             => /\ resp'.status = "running"
                /\ UNCHANGED <<jobs, tasks, lists, pending>>
      /\ tasks' # tasks /\ ~TaskStep
           => /\ Len(tasks') = Len(tasks) + 1
              /\ SubSeq(tasks', 1, Len(tasks)) = tasks
              /\ LET k == tasks'[Len(tasks')].key
                 IN jobs[k].status # "running" /\ StartStep(k)
    ]_vars

C2_Witness ==
  /\ resp.op = "refresh" /\ resp.status = "running"
  /\ jobs[resp.key].status = "running"
  /\ Cardinality(InFlight(resp.key)) = 1

(* C3: the status of a job changes only from absent to running and from a   *)
(* terminal status to running by a start, from running to done or error by  *)
(* a task, and from a terminal status to absent by a status read; a task    *)
(* never changes a job that is done or error.                               *)
C3_Transitions ==
  [][ \A k \in Keys :
        LET a == jobs[k].status
            b == jobs'[k].status
        IN /\ a # b =>
                \/ a = "absent" /\ b = "running" /\ StartStep(k)
                \/ a = "running" /\ b \in Terminal /\ TaskStep
                \/ a \in Terminal /\ b = "running" /\ StartStep(k)
                \/ a \in Terminal /\ b = "absent" /\ resp'.op = "status"
           /\ a \in Terminal /\ TaskStep => jobs'[k] = jobs[k]
    ]_vars

(* C4: a task never ends without leaving its job in a terminal status. *)
C4_TaskEndsTerminal ==
  [][ \A t \in TaskIds :
        TaskEnds(t) => jobs'[tasks[t].key].status \in Terminal ]_vars

(* The status handler's "done" branch replies for key k in this step. *)
DoneReadStep(k) == resp'.op = "status" /\ resp'.key = k /\ resp'.branch = "done"

(* C5: the status read that consumes a done job answers done with the films *)
(* of the stored snapshot, which exists, and removes the job entry; and     *)
(* from then on a snapshot stays stored, so that no status read answers     *)
(* idle for that key.                                                       *)
C5_DoneRead ==
  [][ \A k \in Keys :
        /\ DoneReadStep(k) =>
             /\ lists[k].present
             /\ resp'.status = "done" /\ resp'.films = lists[k].films
             /\ jobs'[k] = NoJob
        /\ lists[k].present => lists'[k].present
        /\ (lists[k].present /\ resp'.op = "status" /\ resp'.key = k)
             => resp'.status # "idle"
    ]_vars

C5_Witness ==
  /\ resp.op = "status" /\ resp.branch = "done"
  /\ resp.films # << >>
  /\ jobs[resp.key] = NoJob

(* C6: a status read that answers error removes the job entry. *)
C6_ErrorReadConsumes ==
  [][ \A k \in Keys :
        (resp'.op = "status" /\ resp'.key = k /\ resp'.status = "error")
          => jobs'[k] = NoJob ]_vars

(* C7: a status read takes the "no job" branch only for a key without job  *)
(* entry; its reply, sent when the store has answered, is done with the     *)
(* films of the stored snapshot if there is one and idle otherwise; neither *)
(* the read nor the reply changes a job, a task or a snapshot; and only     *)
(* such a read answers in the "no job" branch.                              *)
C7_NoJobRead ==
  [][ \A k \in Keys :
        /\ pending'[k]["statusNoJob"] > pending[k]["statusNoJob"]
             => /\ jobs[k].status = "absent"
                /\ UNCHANGED <<jobs, tasks, lists>>
        /\ pending'[k]["statusNoJob"] < pending[k]["statusNoJob"]
             => /\ resp'.op = "status"
                     => /\ resp'.key = k /\ resp'.branch = "nojob"
                        /\ resp'.status = (IF lists[k].present THEN "done" ELSE "idle")
                        /\ resp'.films = (IF lists[k].present THEN lists[k].films ELSE << >>)
                /\ UNCHANGED <<jobs, tasks, lists>>
        /\ (resp'.op = "status" /\ resp'.key = k /\ resp'.branch = "nojob")
             => pending'[k]["statusNoJob"] < pending[k]["statusNoJob"]
    ]_vars

C7_Witness ==
  /\ resp.op = "status" /\ resp.branch = "nojob" /\ resp.status = "done"
  /\ resp.films # << >>
  /\ jobs[resp.key] = NoJob

(* The messages of the errors that faFetch throws. *)
FetchErrors == {"429", "403", "503", "HTTP", "empty", "cloudflare"}

(* C8 as claimed: GET /api/list answers with the films of the stored        *)
(* snapshot, or with none when there is no snapshot, never with an error,   *)
(* and changes no job, task or snapshot; a task is launched only by a       *)
(* refresh request, a page of the upstream site is requested only by a      *)
(* task, and the failure of such a request is reported in the status of the *)
(* job only.                                                                *)
C8_ListNeverScrapes ==
  [][ /\ \A k \in Keys :
           (resp'.op = "list" /\ resp'.key = k)
             => /\ UNCHANGED <<jobs, tasks, lists, pending>>
                /\ resp'.error = ""
                /\ resp'.status = (IF lists[k].present THEN "cached" ELSE "empty")
                /\ resp'.films = (IF lists[k].present THEN lists[k].films ELSE << >>)
      /\ resp'.op \in {"list", "status"} => tasks' = tasks
      /\ Len(tasks') > Len(tasks) => resp'.op = "refresh"
      /\ io'.op = "fetch" => io'.t \in 1..Len(tasks)
      /\ resp'.error \in FetchErrors => resp'.op = "status"
    ]_vars

----------------------------------------------------------------------------
(* Properties of the page loop and of the job's failures *)

(* The records parsed from pages 1..n of the site, in scrape order. *)
RECURSIVE ScrapedUpTo(_)
ScrapedUpTo(n) ==
  IF n = 0 THEN << >> ELSE ScrapedUpTo(n - 1) \o parseListPage(Html(n))

Live(t) == tasks'[t].pc \notin {"ended", "crashed"}

(* The GET of page p >= 2 fails, or its page has no record, in this step. *)
PageStops(t) ==
  /\ io'.op = "fetch" /\ io'.t = t /\ io'.page >= 2
  /\ io'.result # "ok" \/ parseListPage(Html(io'.page)) = << >>

(* The loop of task t was left at a page p >= 2 that failed or was empty:   *)
(* page p is the last one requested and the task is past the loop.          *)
Stopped(t) ==
  /\ tasks[t].pc \in {"save1", "enrich", "pause", "save2"}
  /\ tasks[t].page >= 2
  /\ Len(tasks[t].reqs) = tasks[t].page

(* C9: a task requests the pages 1, 2, 3, ... in this order, none above     *)
(* totalPages nor above 30; while it is in the loop it holds the records of *)
(* the pages fetched so far; at the first page p >= 2 whose fetch fails or  *)
(* that has no record it requests no further page, leaves the job's status  *)
(* alone and goes on to persist the records of pages 1..p-1, reversed and   *)
(* deduplicated; what a successful save stores is what the task holds; only *)
(* a failure of page 1 or of a save sets error, and when a task that        *)
(* stopped at such a page ends without a failed save its job is done.       *)
C9_PageLoop ==
  [][ \A t \in TaskIds :
        LET k  == tasks[t].key
            tk == tasks'[t]
        IN /\ Live(t) =>
                /\ \A i \in 1..Len(tk.reqs) : tk.reqs[i] = i
                /\ Len(tk.reqs) <= 30
                /\ Len(tk.reqs) >= 2 => Len(tk.reqs) <= tk.totalPages
                /\ (tk.pc \in {"fetch", "sleep"} /\ tk.page >= 2)
                     => tk.allFilms = ScrapedUpTo(tk.page - 1)
           /\ PageStops(t) =>
                /\ tk.pc = "save1"
                /\ tk.allFilms = DedupeById(Reverse(ScrapedUpTo(io'.page - 1)))
                /\ tk.reqs = tasks[t].reqs
                /\ jobs' = jobs
           /\ tasks[t].pc \notin {"fetch", "sleep"}
                => Len(tk.reqs) <= Len(tasks[t].reqs)
           /\ (io'.op = "save" /\ io'.t = t /\ io'.result = "ok")
                => lists'[k].present /\ lists'[k].films = tasks[t].allFilms
           /\ (Stopped(t) /\ TaskEnds(t) /\ ~(io'.op = "save" /\ io'.result # "ok"))
                => jobs'[k].status = "done"
           /\ (jobs'[k].status = "error" /\ jobs[k].status # "error")
                => \/ io'.op = "fetch" /\ io'.page = 1 /\ io'.result # "ok"
                   \/ io'.op = "save" /\ io'.result = "db"
    ]_vars

(* C10: when the GET of page 1 fails the task ends there, writes no         *)
(* snapshot and its catch block leaves the job in status error with the     *)
(* failure's message; when a dbSaveList throws the task ends there, the     *)
(* stored snapshot is unchanged and the job is left in status error with    *)
(* the store's message.                                                     *)
C10_FatalFailures ==
  [][ \A t \in TaskIds :
        LET k == tasks[t].key
        IN /\ (io'.op = "fetch" /\ io'.t = t /\ io'.page = 1 /\ io'.result # "ok")
                => /\ TaskEnds(t)
                   /\ lists' = lists
                   /\ jobs'[k].status = "error" /\ jobs'[k].error = io'.result
           /\ (io'.op = "save" /\ io'.t = t /\ io'.result # "ok")
                => /\ TaskEnds(t)
                   /\ lists' = lists
                   /\ jobs'[k].status = "error" /\ jobs'[k].error = "db"
    ]_vars

----------------------------------------------------------------------------
(* The specification of tmdbEnrich calls, one after the other *)

InitEnrich ==
  /\ alive = TRUE
  /\ db \in BOOLEAN
  /\ TMDB_KEY \in BOOLEAN
  /\ site \in {s \in SmallSites : s.pager = {} /\ s.head[1] # << >>}
  /\ lists = [k \in Keys |-> NoDoc]
  /\ jobs = [k \in Keys |-> NoJob]
  /\ tasks = << >>
  /\ pending = [k \in Keys |-> [op \in PendOps |-> 0]]
  /\ resp = NoResp
  /\ io = NoIo
  /\ AuxInit

NextEnrich ==
  \/ \E id \in EnrichIds : EnrichCall(id)
  \/ SearchReturn
  \/ DetailReturn
  \/ StoreReturn
  \/ Tick(EnrichInstants)

SpecEnrich == InitEnrich /\ [][NextEnrich]_vars

----------------------------------------------------------------------------
(* Properties of the order of a job's operations and of what it persists *)

(* C11: within one task a page is requested only when the inter-page delay  *)
(* is over, and it is the page after the last one requested; the delay      *)
(* starts only when the fetch of the last requested page has answered and   *)
(* its page was parsed; the enrichment of record 1 starts only in the step  *)
(* in which the base snapshot was persisted, the enrichment of record i+1   *)
(* only when the pause after record i is over; the pause starts only when   *)
(* tmdbEnrich of record i has returned; while record i is being enriched    *)
(* exactly the records before it are marked enriched.                       *)
C11_Sequential ==
  [][ \A t \in TaskIds :
        LET a == tasks[t]
            b == tasks'[t]
        IN /\ Len(b.reqs) > Len(a.reqs)
                => /\ a.pc = "sleep" /\ b.pc = "fetch"
                   /\ b.reqs = Append(a.reqs, Len(a.reqs) + 1)
           /\ (b.pc = "sleep" /\ a.pc # "sleep")
                => /\ a.pc = "fetch"
                   /\ io'.op = "fetch" /\ io'.t = t /\ io'.result = "ok"
                   /\ io'.page = Len(a.reqs)
                   /\ b.page = io'.page + 1
           /\ (b.pc = "enrich" /\ a.pc # "enrich")
                => \/ /\ a.pc = "save1" /\ b.i = 1
                      /\ io'.op = "save" /\ io'.t = t /\ io'.result = "ok"
                      /\ lists'[a.key].present
                      /\ lists'[a.key].films = a.allFilms
                   \/ a.pc = "pause" /\ b.i = a.i + 1
           /\ (b.pc = "pause" /\ a.pc # "pause")
                => a.pc = "enrich" /\ b.i = a.i /\ b.allFilms[b.i].enriched
           /\ b.pc = "enrich"
                => \A j \in 1..Len(b.allFilms) : b.allFilms[j].enriched <=> j < b.i
    ]_vars

C11_Witness ==
  \E t \in TaskIds :
    /\ tasks[t].pc = "enrich" /\ tasks[t].i = 2
    /\ tasks[t].allFilms[1].enriched /\ ~tasks[t].allFilms[2].enriched
    /\ lists[tasks[t].key].present

Ids(s) == {s[i].id : i \in 1..Len(s)}

(* The position of the last, of the first record of s with this id. *)
LastPos(s, id) == SetMax({i \in 1..Len(s) : s[i].id = id})
FirstPos(s, id) == CHOOSE i \in 1..Len(s) :
                     s[i].id = id /\ \A j \in 1..(i - 1) : s[j].id # id

(* The first dbSaveList of task t succeeds in this step. *)
BaseSaved(t) ==
  /\ tasks[t].pc = "save1"
  /\ io'.op = "save" /\ io'.t = t /\ io'.result = "ok"

(* The records of the pages task t has kept, in scrape order. *)
Scraped(t) == ScrapedUpTo(tasks[t].page - 1)

(* C12: the sequence the first dbSaveList of a task stores is the sequence  *)
(* of the records scraped, reversed and deduplicated by id keeping the first*)
(* occurrence of the reversed sequence: its ids are pairwise distinct and   *)
(* are the ids scraped, each record is the last one scraped with its id,    *)
(* the records are ordered by decreasing position of that last occurrence;  *)
(* when the ids scraped are distinct it is exactly the reverse of the       *)
(* scrape order.                                                            *)
C12_PersistedOrder ==
  [][ \A t \in TaskIds :
        BaseSaved(t) =>
          LET s == Scraped(t)
              r == lists'[tasks[t].key].films
          IN /\ \A i, j \in 1..Len(r) : i # j => r[i].id # r[j].id
             /\ Ids(r) = Ids(s)
             /\ \A j \in 1..Len(r) : r[j] = s[LastPos(s, r[j].id)]
             /\ \A i, j \in 1..Len(r) :
                  i < j => LastPos(s, r[i].id) > LastPos(s, r[j].id)
             /\ Cardinality(Ids(s)) = Len(s)
                  => /\ Len(r) = Len(s)
                     /\ \A j \in 1..Len(r) : r[j] = s[Len(s) + 1 - j]
    ]_vars

C12_Witness ==
  /\ io.op = "save" /\ io.result = "ok"
  /\ lists["k1"].films = <<Film(1, "b"), Film(3, "a"), Film(2, "a")>>

(* C13: of the records scraped with one id, the base snapshot holds the     *)
(* first one in scrape order.                                               *)
C13_FirstSeenWins ==
  [][ \A t \in TaskIds :
        BaseSaved(t) =>
          LET s == Scraped(t)
              r == lists'[tasks[t].key].films
          IN \A j \in 1..Len(r) : r[j] = s[FirstPos(s, r[j].id)]
    ]_vars

(* C14: the films of every stored document have pairwise distinct ids. *)
C14_DistinctIds ==
  \A k \in Keys :
    lists[k].present =>
      \A i, j \in 1..Len(lists[k].films) :
        i # j => lists[k].films[i].id # lists[k].films[j].id

----------------------------------------------------------------------------
(* Properties of faFetch and getFACookie *)

(* The faFetch call has returned or thrown. *)
FetchReturned == call.op = "faFetch" /\ call.pc = "returned"

(* The number of requests of this kind the call has sent. *)
Sent(kind) == Cardinality({i \in 1..Len(call.reqs) : call.reqs[i] = kind})

(* C15: a faFetch call whose page GET was answered 429 has sent the page    *)
(* GET again: it ends on a 429 only after more than one attempt.            *)
C15_RetryOn429 ==
  (FetchReturned /\ call.answer.status = 429) => Sent("page") > 1

(* C16: a faFetch call that ends on a 403 or a 503 has sent the page GET    *)
(* three times, the first attempt and 2 retries.                            *)
C16_RetryOn403 ==
  (FetchReturned /\ call.answer.status \in {403, 503}) => Sent("page") = 3

(* C17 as claimed: whatever the status, a body with a challenge marker ends *)
(* the call with the challenge error.                                       *)
C17_ChallengeAnyStatus ==
  (FetchReturned /\ call.answer.challenge) => call.result = "cloudflare"

(* C17 as the code has it: the call ends with the challenge error exactly   *)
(* for a 2xx answer whose body has at least 200 characters and a marker,    *)
(* with the empty-response error exactly for a 2xx answer with a body below *)
(* 200 characters, with the html exactly for a 2xx answer with 200          *)
(* characters or more and no marker, and with the error of its status for   *)
(* any other status, whatever the body.                                     *)
C17_ChallengeOn2xx ==
  FetchReturned =>
    LET r   == call.answer
        s2x == r.status \in 200..299
    IN /\ call.result = "cloudflare" <=> (s2x /\ r.len >= 200 /\ r.challenge)
       /\ call.result = "empty" <=> (s2x /\ r.len < 200)
       /\ call.result = "html" <=> (s2x /\ r.len >= 200 /\ ~r.challenge)
       /\ ~s2x => call.result = (CASE r.status = 429 -> "429"
                                   [] r.status = 403 -> "403"
                                   [] r.status = 503 -> "503"
                                   [] OTHER -> "HTTP")

C17_Witness ==
  /\ FetchReturned /\ call.result = "cloudflare"
  /\ call.answer.status = 201

(* A faFetch call starts in this step. *)
FetchStarts ==
  /\ call.pc \in {"idle", "returned"}
  /\ call'.op = "faFetch" /\ call'.pc \in {"landing", "page"}

(* C18 as claimed: a call requests the landing page only when there is no   *)
(* cookie or the cookie is older than one hour.                             *)
C18_SessionOlderThanHour ==
  [][ (call'.pc = "landing" /\ call.pc # "landing")
        => faCookie = "" \/ now - faCookieTs > 3600000
    ]_vars

(* C18: a call requests the landing page only when there is no cookie or    *)
(* the cookie is an hour old or more, and at most once; a call that starts  *)
(* with a cookie younger than an hour sends the page GET at once, and the   *)
(* cookie and its timestamp change only when a landing request answers with *)
(* cookies; when the landing request throws or has no cookie they stay as   *)
(* they are, and in every case the page GET follows.                        *)
C18_Session ==
  [][ /\ (call'.pc = "landing" /\ call.pc # "landing")
           => /\ FetchStarts
              /\ faCookie = "" \/ now - faCookieTs >= 3600000
      /\ Cardinality({i \in 1..Len(call'.reqs) : call'.reqs[i] = "landing"}) <= 1
      /\ (FetchStarts /\ faCookie # "" /\ now - faCookieTs < 3600000)
           => call'.reqs = <<"page">> /\ call'.hit
      /\ (faCookie' # faCookie \/ faCookieTs' # faCookieTs)
           => /\ call.pc = "landing" /\ ~call.hit
              /\ call'.got \in Tokens
              /\ faCookie' = call'.got /\ faCookieTs' = now
      /\ (call.pc = "landing" /\ call'.pc # "landing")
           => /\ call'.pc = "page"
              /\ call'.reqs = <<"landing", "page">>
              /\ call'.got \in {"throws", "nocookie"}
                   => UNCHANGED <<faCookie, faCookieTs>>
    ]_vars

C18_Witness ==
  /\ call.op = "faFetch" /\ call.pc = "page" /\ call.got = "throws"
  /\ faCookie # "" /\ now - faCookieTs = CookieMaxAge
  /\ call.reqs = <<"landing", "page">>

----------------------------------------------------------------------------
(* Properties of tmdbEnrich *)

(* A call for the film of the call before it, which had sent the searches   *)
(* and ended in one of these ways, has just started, less than 7 days after *)
(* that call ended.                                                         *)
SecondCall(outcomes) ==
  /\ TMDB_KEY
  /\ call.op = "tmdbEnrich"
  /\ call.pc = "search" \/ call.outcome = "hit"
  /\ call.prev.id = call.id
  /\ call.prev.outcome \in outcomes
  /\ call.at - call.prev.end < 604800000

(* C19 as claimed: however the first call ended, the second one is answered *)
(* from the cache and sends no request.                                     *)
C19_SecondCallCached ==
  SecondCall({"match", "nomatch", "invalid_key", "exception"})
    => call.outcome = "hit" /\ call.reqs = << >>

(* C19 as the code has it: after a match or a no-match the second call is   *)
(* answered from the cache, with the cached data and no request; after a    *)
(* 401 or an exception in the lookup it sends both searches again.          *)
C19_SecondCallCachedAfterResult ==
  /\ SecondCall({"match", "nomatch"})
       => /\ call.outcome = "hit" /\ call.reqs = << >>
          /\ call.result = (IF call.prev.outcome = "match" THEN "data" ELSE "empty")
  /\ SecondCall({"invalid_key", "exception"})
       => call.pc = "search" /\ call.reqs = <<"search/movie", "search/tv">>

C19_Witness ==
  /\ SecondCall({"nomatch"})
  /\ call.outcome = "hit" /\ call.result = "empty"
  /\ call.at - call.prev.end = TmdbTtl - 1

(* C20 as claimed: when the wait for the searches ends and one of them has  *)
(* answered 401, the call returns the invalid_key tag in that step, has     *)
(* sent no detail request, and tmdbCache and the tmdb collection are as     *)
(* before.                                                                  *)
C20_InvalidKey ==
  [][ ( /\ call.op = "tmdbEnrich" /\ call.pc = "search" /\ call'.pc # "search"
        /\ call'.mr = 401 \/ call'.tr = 401 )
        => /\ call'.pc = "returned" /\ call'.result = "invalid_key"
           /\ call'.reqs = <<"search/movie", "search/tv">>
           /\ tmdbCache' = tmdbCache /\ tmdbStore' = tmdbStore
    ]_vars

----------------------------------------------------------------------------
(* scoreMatch and the choice of tmdbEnrich, applied to one search result *)

RECURSIVE SeqsUpTo(_, _)
SeqsUpTo(S, n) ==
  IF n = 0 THEN {<< >>}
  ELSE LET shorter == SeqsUpTo(S, n - 1)
       IN shorter \cup {Append(q, x) : q \in shorter, x \in S}

MaxFilmTitle == 2
MaxResultTitle == 3

(* film.title and film.year (0: none) *)
ScoreFilms ==
  [title : SeqsUpTo(Chars, MaxFilmTitle), year : {0, 2000}]

(* film.type, and the index a result came from *)
MediaTypes == {"movie", "series"}

(* A search result: its title and the year of its date (0: none). *)
ScoreResults ==
  [title : SeqsUpTo(Chars, MaxResultTitle), year : {0, 1990, 1999, 2000}]

InitScore ==
  /\ alive = TRUE
  /\ db = FALSE
  /\ TMDB_KEY = TRUE
  /\ site \in {s \in SmallSites : s.pager = {} /\ s.head[1] # << >>}
  /\ lists = [k \in Keys |-> NoDoc]
  /\ jobs = [k \in Keys |-> NoJob]
  /\ tasks = << >>
  /\ pending = [k \in Keys |-> [op \in PendOps |-> 0]]
  /\ resp = NoResp
  /\ io = NoIo
  /\ now = 0 /\ faCookie = "" /\ faCookieTs = 0
  /\ tmdbCache = [id \in EnrichIds |-> NoEntry]
  /\ tmdbStore = [id \in EnrichIds |-> NoEntry]
  /\ call = NoCall
  /\ marks = [k \in Keys |-> NoMarks]
  /\ \E f \in ScoreFilms, r \in ScoreResults :
       calc = [op |-> "args", film |-> f, result |-> r, type |-> "", mediaType |-> "",
               score |-> 0, final |-> 0, outcome |-> ""]

(* scoreMatch(r, film.title, film.year) for the result of an index *)
ApplyScoreMatch ==
  /\ calc.op = "args"
  /\ calc' = [calc EXCEPT !.op = "scoreMatch",
                          !.score = scoreMatchOf(calc.result, calc.film.title, calc.film.year)]
  /\ UNCHANGED <<alive, db, TMDB_KEY, site, lists, jobs, tasks, pending, resp, io>>
  /\ UNCHANGED <<now, faCookie, faCookieTs, tmdbCache, tmdbStore, call, marks>>

(* The media-type bonus, the sort and the threshold of tmdbEnrich when the  *)
(* result is the only candidate, for a film of either type and a result of  *)
(* either index: the detail request, or the empty result.                   *)
Select ==
  /\ calc.op = "scoreMatch"
  /\ \E type \in MediaTypes, mt \in MediaTypes :
       LET want  == IF type = "series" THEN "series" ELSE "movie"
           final == calc.score + (IF mt = want THEN 10 ELSE 0)
       IN calc' = [calc EXCEPT !.op = "select", !.type = type, !.mediaType = mt,
                               !.final = final,
                               !.outcome = IF final < AcceptScore THEN "nomatch"
                                           ELSE "detail"]
  /\ UNCHANGED <<alive, db, TMDB_KEY, site, lists, jobs, tasks, pending, resp, io>>
  /\ UNCHANGED <<now, faCookie, faCookieTs, tmdbCache, tmdbStore, call, marks>>

NextScore == ApplyScoreMatch \/ Select

SpecScore == InitScore /\ [][NextScore]_vars

(* How the normalized title of the result stands to that of the film. *)
ScoredRelation(r, f) == TitleRelation(normalizeTitle(r.title), normalizeTitle(f.title))

(* C21: for a film with a known year, a result with the exact title and the *)
(* exact year scores more than any result with the exact title and no year, *)
(* and a result with the exact title and no year scores more than any       *)
(* result whose title only contains the film's, whatever its year.          *)
C21_ScoreMonotone ==
  ( /\ calc.op = "scoreMatch"
    /\ calc.film.year # 0
    /\ ScoredRelation(calc.result, calc.film) = "exact" )
    => \A r2 \in ScoreResults :
         LET s2 == scoreMatchOf(r2, calc.film.title, calc.film.year)
         IN /\ ( /\ calc.result.year = calc.film.year
                 /\ ScoredRelation(r2, calc.film) = "exact" /\ r2.year = 0 )
                 => calc.score > s2
            /\ ( /\ calc.result.year = 0
                 /\ ScoredRelation(r2, calc.film) = "contains" )
                 => calc.score > s2

C21_Witness ==
  /\ calc.op = "scoreMatch"
  /\ calc.film.year = 2000 /\ calc.result.year = 0
  /\ calc.film.title = <<"É", "!">> /\ calc.result.title = <<" ", "É">>
  /\ calc.score = 100
  /\ \E r2 \in ScoreResults :
       /\ ScoredRelation(r2, calc.film) = "contains" /\ r2.year = 2000
       /\ scoreMatchOf(r2, calc.film.title, calc.film.year) = 60

(* C22: a result whose normalized title is not equal to a non-empty film    *)
(* title, nor that title followed or preceded by more words, nor a string   *)
(* that contains it, ends below 40 with the bonus and the call takes the    *)
(* empty result.                                                            *)
C22_UnrelatedRejected ==
  ( /\ calc.op = "select"
    /\ \/ normalizeTitle(calc.film.title) = << >>
       \/ ScoredRelation(calc.result, calc.film) = "none" )
    => calc.final < 40 /\ calc.outcome = "nomatch"

(* The candidates of one index among those the call has built. *)
OfIndex(c, mt) == {i \in 1..Len(c.cand) : c.cand[i].mediaType = mt}

(* Both searches have answered, neither with 401. *)
Searched ==
  /\ call.op = "tmdbEnrich" /\ call.pc = "search" /\ call'.pc # "search"
  /\ call'.mr \notin {-1, 401} /\ call'.tr \notin {-1, 401}

(* C23: the candidates are at most 5 of each index; the detail request is   *)
(* sent exactly when some candidate has a final score of at least 40, and   *)
(* for a candidate whose score is the highest; otherwise no detail request  *)
(* is sent, tmdbCache holds the empty result from that step on and the call *)
(* returns the empty result, in that step or, with MongoDB, when the store  *)
(* has answered.                                                            *)
C23_BestCandidate ==
  [][ /\ (call.pc = "storing" /\ call.outcome = "nomatch" /\ call' # call /\ now' = now)
         => /\ call'.pc = "returned" /\ call'.result = "empty"
            /\ call'.reqs = <<"search/movie", "search/tv">>
            /\ tmdbCache'[call.id].present /\ tmdbCache'[call.id].data = "empty"
      /\ Searched =>
        LET c == call'.cand
            accepted == \E i \in 1..Len(c) : c[i].score >= 40
        IN /\ Cardinality(OfIndex(call', "movie")) = Min(5, IF call'.mr = 200 THEN call'.found[1] ELSE 0)
           /\ Cardinality(OfIndex(call', "series")) = Min(5, IF call'.tr = 200 THEN call'.found[2] ELSE 0)
           /\ accepted
                => /\ call'.pc = "detail"
                   /\ call'.reqs = <<"search/movie", "search/tv", "detail">>
                   /\ call'.pick \in 1..Len(c)
                   /\ c[call'.pick].score >= 40
                   /\ \A j \in 1..Len(c) : c[j].score <= c[call'.pick].score
                   /\ call'.best = c[call'.pick].mediaType
                   /\ UNCHANGED tmdbCache
           /\ ~accepted
                => /\ IF db THEN call'.pc = "storing" /\ call'.outcome = "nomatch"
                           ELSE call'.pc = "returned" /\ call'.result = "empty"
                   /\ call'.reqs = <<"search/movie", "search/tv">>
                   /\ tmdbCache'[call.id] = [present |-> TRUE, data |-> "empty", ts |-> now]
    ]_vars

C23_Witness ==
  /\ call.op = "tmdbEnrich" /\ call.pc = "detail" /\ call.id = 1
  /\ call.found = <<6, 2>> /\ Len(call.cand) = 7
  /\ call.pick = 7 /\ call.cand[7].score = 60 /\ call.best = "series"

----------------------------------------------------------------------------
(* The enrichment data of tmdbEnrich and their merge into a film record.    *)
(* Objects are functions from their keys; "null" stands for null.           *)

(* { ...a, ...b } *)
Spread(a, b) == [k \in DOMAIN a \cup DOMAIN b |-> IF k \in DOMAIN b THEN b[k] ELSE a[k]]

(* x || y on values of which only null is falsy *)
OrElse(x, y) == IF x # "null" THEN x ELSE y

EmptyObject == [k \in {} |-> "null"]

EnrichDataAlwaysPoster(result, detail, ok, mediaType) ==
  LET d == IF ok THEN detail ELSE result
      posterPath == OrElse(d.poster_path, OrElse(result.poster_path, "null"))
  IN [synopsis |-> OrElse(d.overview, OrElse(result.overview, "null")),
      duration |-> d.runtime,
      type     |-> mediaType,
      poster   |-> IF posterPath # "null" THEN "w500" \o posterPath ELSE "null"]

(* const detail = dr.ok ? await dr.json() : result; ...; const data =       *)
(* { synopsis, duration, type: mediaType, genres, ...(poster ? { poster } : *)
(* {}) }.  runtime stands for the duration field of the media type; the    *)
(* genres, which the merge copies like the synopsis, are left out.          *)
EnrichData(result, detail, ok, mediaType) ==
  LET d == IF ok THEN detail ELSE result
      posterPath == OrElse(d.poster_path, OrElse(result.poster_path, "null"))
      base == [synopsis |-> OrElse(d.overview, OrElse(result.overview, "null")),
               duration |-> d.runtime,
               type     |-> mediaType]
  IN IF posterPath # "null"
       THEN Spread(base, [poster |-> "w500" \o posterPath])
       ELSE base

(* What tmdbEnrich returns for a lookup that ended as "how". *)
Extra(how, data) ==
  CASE how = "match"       -> data
    [] how = "invalid_key" -> [_tmdb_error |-> "invalid_key"]
    [] OTHER               -> EmptyObject

(* if (extra && !extra._tmdb_error && Object.keys(extra).length > 0)        *)
(*   allFilms[i] = { ...allFilms[i], ...extra, _enriched: true };           *)
(* else allFilms[i] = { ...allFilms[i], _enriched: true };                  *)
Merge(film, extra) ==
  IF "_tmdb_error" \notin DOMAIN extra /\ DOMAIN extra # {}
    THEN Spread(Spread(film, extra), [_enriched |-> "true"])
    ELSE Spread(film, [_enriched |-> "true"])

(* The records parseListPage makes, reduced to the fields a merge can touch *)
(* or must keep.                                                            *)
MergeFilms ==
  [id : {"10001"}, filmaffinity_url : {"film10001.html"}, title : {"a"},
   poster : {"null", "fa.jpg"}, type : {"movie", "series"}]

(* A search result and a detail answer: overview, runtime, poster_path. *)
TmdbObjects ==
  [overview : {"null", "o"}, runtime : {"null", "90"}, poster_path : {"null", "/p.jpg"}]

LookupEnds == {"match", "nomatch", "invalid_key", "exception"}

InitMerge ==
  /\ alive = TRUE
  /\ db = FALSE
  /\ TMDB_KEY = TRUE
  /\ site \in {s \in SmallSites : s.pager = {} /\ s.head[1] # << >>}
  /\ lists = [k \in Keys |-> NoDoc]
  /\ jobs = [k \in Keys |-> NoJob]
  /\ tasks = << >>
  /\ pending = [k \in Keys |-> [op \in PendOps |-> 0]]
  /\ resp = NoResp
  /\ io = NoIo
  /\ now = 0 /\ faCookie = "" /\ faCookieTs = 0
  /\ tmdbCache = [id \in EnrichIds |-> NoEntry]
  /\ tmdbStore = [id \in EnrichIds |-> NoEntry]
  /\ call = NoCall
  /\ marks = [k \in Keys |-> NoMarks]
  /\ \E f \in MergeFilms, r \in TmdbObjects, d \in TmdbObjects, ok \in BOOLEAN :
       calc = [op |-> "args", film |-> f, result |-> r, detail |-> d, ok |-> ok,
               how |-> "", extra |-> EmptyObject, merged |-> EmptyObject]

(* tmdbEnrich returns: the data of the best candidate of either index, or   *)
(* what the other ends of a lookup return.                                  *)
ApplyEnrichData ==
  /\ calc.op = "args"
  /\ \E how \in LookupEnds, mt \in MediaTypes :
       calc' = [calc EXCEPT !.op = "data", !.how = how,
                            !.extra = Extra(how, EnrichData(calc.result, calc.detail,
                                                            calc.ok, mt))]
  /\ UNCHANGED <<alive, db, TMDB_KEY, site, lists, jobs, tasks, pending, resp, io>>
  /\ UNCHANGED <<now, faCookie, faCookieTs, tmdbCache, tmdbStore, call, marks>>

(* The enrichment loop of runRefreshJob merges what tmdbEnrich returned. *)
ApplyMerge ==
  /\ calc.op = "data"
  /\ calc' = [calc EXCEPT !.op = "merged", !.merged = Merge(calc.film, calc.extra)]
  /\ UNCHANGED <<alive, db, TMDB_KEY, site, lists, jobs, tasks, pending, resp, io>>
  /\ UNCHANGED <<now, faCookie, faCookieTs, tmdbCache, tmdbStore, call, marks>>

NextMerge == ApplyEnrichData \/ ApplyMerge

SpecMerge == InitMerge /\ [][NextMerge]_vars

(* Neither the detail the call used nor the search result has a poster path *)
NoPosterFound ==
  /\ calc.result.poster_path = "null"
  /\ calc.ok => calc.detail.poster_path = "null"

(* C24: a merge keeps the poster key of the record and never puts null in   *)
(* the place of a poster; when no poster path was found the data have no    *)
(* poster key and the poster is the one before the merge; id and source URL *)
(* are those before the merge.                                              *)
C24_MergeKeepsPoster ==
  calc.op = "merged" =>
    /\ "poster" \in DOMAIN calc.merged
    /\ calc.film.poster # "null" => calc.merged.poster # "null"
    /\ NoPosterFound
         => /\ "poster" \notin DOMAIN calc.extra
            /\ calc.merged.poster = calc.film.poster
    /\ calc.merged.id = calc.film.id
    /\ calc.merged.filmaffinity_url = calc.film.filmaffinity_url

C24_Witness ==
  /\ calc.op = "merged" /\ calc.how = "match"
  /\ NoPosterFound
  /\ calc.film.poster = "fa.jpg" /\ calc.merged.poster = "fa.jpg"
  /\ calc.merged.synopsis = "o" /\ calc.merged._enriched = "true"

----------------------------------------------------------------------------
(* Enrichment inside a job *)

(* tmdbEnrich returns to task t without data in this step. *)
EnrichFails(t) ==
  /\ tasks[t].pc = "enrich" /\ tasks'[t].pc # "enrich"
  /\ ~tasks'[t].allFilms[tasks[t].i].tmdb

(* Some record of task t went through a lookup that gave no data. *)
HadEmptyLookup(t) ==
  \E j \in 1..Len(tasks[t].allFilms) :
    tasks[t].allFilms[j].enriched /\ ~tasks[t].allFilms[j].tmdb

(* C25: when tmdbEnrich returns without data the task marks that record and *)
(* changes nothing else in it nor in any other record, leaves the job as it *)
(* is and goes on to the pause before the next record; and when a task with *)
(* such a record ends without a failed save its job is done.                *)
C25_EnrichFailureAbsorbed ==
  [][ \A t \in TaskIds :
        LET k == tasks[t].key
            i == tasks[t].i
        IN /\ EnrichFails(t)
                => /\ tasks'[t].allFilms =
                        [tasks[t].allFilms EXCEPT ![i].enriched = TRUE]
                   /\ tasks'[t].pc = "pause" /\ tasks'[t].i = i
                   /\ jobs' = jobs /\ lists' = lists
           /\ (HadEmptyLookup(t) /\ TaskEnds(t) /\ ~(io'.op = "save" /\ io'.result # "ok"))
                => jobs'[k].status = "done"
    ]_vars

(* Task t sets its job to done in this step. *)
DoneStep(t) ==
  /\ TaskEnds(t) /\ tasks'[t].pc = "ended"
  /\ jobs'[tasks[t].key].status = "done"

(* C26: with a key, the step in which a task sets done is the one in which  *)
(* its second save stores its records, and every one of them is marked      *)
(* enriched; without a key no task is ever in the enrichment loop or at the *)
(* second save, and the step in which a task sets done is the one in which  *)
(* its first and only save stores its records.                              *)
C26_AllMarkedAtDone ==
  [][ \A t \in TaskIds :
        LET k == tasks[t].key
        IN /\ (TMDB_KEY /\ DoneStep(t))
                => /\ tasks[t].pc = "save2" /\ io' = SaveIo(t, TRUE)
                   /\ lists'[k] = Doc(tasks[t].allFilms, <<t, 2>>)
                   /\ \A j \in 1..Len(lists'[k].films) : lists'[k].films[j].enriched
           /\ ~TMDB_KEY
                => /\ tasks'[t].pc \notin {"enrich", "pause", "save2"}
                   /\ (io'.op = "save" /\ io'.t = t) => tasks[t].pc = "save1"
                   /\ DoneStep(t)
                        => /\ tasks[t].pc = "save1" /\ io' = SaveIo(t, TRUE)
                           /\ lists'[k] = Doc(tasks[t].allFilms, <<t, 1>>)
                           /\ \A j \in 1..Len(lists'[k].films) : ~lists'[k].films[j].enriched
    ]_vars

C26_Witness ==
  /\ TMDB_KEY
  /\ jobs["k1"].status = "done" /\ io.op = "save" /\ io.result = "ok"
  /\ lists["k1"].present /\ lists["k1"].ts[2] = 2
  /\ Len(lists["k1"].films) = 2
  /\ lists["k1"].films[1].enriched /\ lists["k1"].films[1].tmdb
  /\ lists["k1"].films[2].enriched /\ ~lists["k1"].films[2].tmdb

----------------------------------------------------------------------------
(* The marks: GET and POST /api/marks/:key over dbGetMarks and dbSaveMarks. *)
(* Each handler awaits the store once; its step is the store's answer.      *)

MaxMarks == 2

MarkIds == {"10001", "10002"}

(* req.body.marks: an array of ids, or a value that is no array (a string,  *)
(* an object, or none).                                                     *)
MarksBodies ==
  [array : {TRUE}, v : SeqsUpTo(MarkIds, MaxMarks)]
    \cup [array : {FALSE}, v : {"10001", "object", "undefined"}]

(* mem.marks[key] || [], doc?.marks || [] *)
dbGetMarks(k) == IF marks[k].present THEN marks[k].marks ELSE << >>

dbSaveMarksAppends(k, m) ==
  [marks EXCEPT ![k] = [present |-> TRUE, marks |-> dbGetMarks(k) \o m]]

(* mem.marks[key] = marks, or updateOne $set with upsert *)
dbSaveMarks(k, m) == [marks EXCEPT ![k] = [present |-> TRUE, marks |-> m]]

(* What a marks handler was asked and what it answered (status 0: the store *)
(* threw and no response was sent).                                         *)
MarksCall(op, k, body, status, out) ==
  [op |-> op, key |-> k, body |-> body, status |-> status, marks |-> out]

NoBody == [array |-> FALSE, v |-> "undefined"]

(* GET /api/marks/:key.  When dbGetMarks throws no response is sent and the *)
(* handler's promise rejects.                                               *)
GetMarks(k) ==
  /\ alive
  /\ \E ok \in StoreOutcomes :
       IF ok
         THEN /\ calc' = MarksCall("getMarks", k, NoBody, 200, dbGetMarks(k))
              /\ UNCHANGED alive
         ELSE /\ calc' = MarksCall("getMarks", k, NoBody, 0, << >>)
              /\ Unhandled
  /\ UNCHANGED <<db, TMDB_KEY, site, lists, jobs, tasks, pending, resp, io>>
  /\ UNCHANGED <<now, faCookie, faCookieTs, tmdbCache, tmdbStore, call, marks>>

(* POST /api/marks/:key.  When dbSaveMarks throws no response is sent and   *)
(* the handler's promise rejects.                                           *)
SaveMarks(k, body) ==
  /\ alive
  /\ IF ~body.array
       THEN /\ calc' = MarksCall("saveMarks", k, body, 400, << >>)
            /\ UNCHANGED <<marks, alive>>
       ELSE \E ok \in StoreOutcomes :
              IF ok
                THEN /\ marks' = dbSaveMarks(k, body.v)
                     /\ calc' = MarksCall("saveMarks", k, body, 200, << >>)
                     /\ UNCHANGED alive
                ELSE /\ UNCHANGED marks
                     /\ calc' = MarksCall("saveMarks", k, body, 0, << >>)
                     /\ Unhandled
  /\ UNCHANGED <<db, TMDB_KEY, site, lists, jobs, tasks, pending, resp, io>>
  /\ UNCHANGED <<now, faCookie, faCookieTs, tmdbCache, tmdbStore, call>>

(* A process that holds a restored snapshot and no job. *)
InitMarks ==
  /\ alive = TRUE
  /\ db \in BOOLEAN
  /\ TMDB_KEY = FALSE
  /\ site \in {s \in SmallSites : s.pager = {} /\ s.head[1] # << >>}
  /\ \E b \in RestoreBodies : lists = [k \in Keys |-> IF k = "k1" THEN Doc(b, <<0, 1>>) ELSE NoDoc]
  /\ jobs = [k \in Keys |-> NoJob]
  /\ tasks = << >>
  /\ pending = [k \in Keys |-> [op \in PendOps |-> 0]]
  /\ resp = NoResp
  /\ io = NoIo
  /\ AuxInit

NextMarks ==
  \E k \in Keys :
    \/ GetMarks(k)
    \/ \E body \in MarksBodies : SaveMarks(k, body)

SpecMarks == InitMarks /\ [][NextMarks]_vars

(* C27: a GET answers the marks last saved for its key, the empty sequence  *)
(* when none was; a save of a sequence stores exactly that sequence for its *)
(* key; a save of anything else answers 400; and no step changes the marks  *)
(* of a key other than a save of a sequence for that key, nor any snapshot  *)
(* or job.                                                                  *)
C27_MarksRoundTrip ==
  [][ /\ (calc'.op = "getMarks" /\ calc'.status = 200)
           => /\ calc'.marks = (IF marks[calc'.key].present
                                 THEN marks[calc'.key].marks ELSE << >>)
              /\ marks' = marks
      /\ (calc'.op = "saveMarks" /\ calc'.status = 200)
           => /\ calc'.body.array
              /\ marks'[calc'.key] = [present |-> TRUE, marks |-> calc'.body.v]
      /\ (calc'.op = "saveMarks" /\ ~calc'.body.array)
           => calc'.status = 400 /\ marks' = marks
      /\ \A k \in Keys :
           marks'[k] # marks[k]
             => calc'.op = "saveMarks" /\ calc'.key = k /\ calc'.status = 200
      /\ lists' = lists /\ jobs' = jobs
    ]_vars

(* A GET answers the two marks that replaced an earlier, different save. *)
C27_Witness ==
  /\ calc.op = "getMarks" /\ calc.status = 200 /\ calc.key = "k1"
  /\ calc.marks = <<"10002", "10001">>
  /\ marks["k2"] = [present |-> TRUE, marks |-> << >>]

----------------------------------------------------------------------------
(* Key derivation *)

(* The printable ASCII characters in code order, from the space (32) on;    *)
(* the double quote, the backslash and the backtick go by their names.      *)
AsciiChars ==
  <<" ", "!", "quote", "#", "$", "%", "&", "'", "(", ")", "*", "+", ",", "-",
    ".", "/", "0", "1", "2", "3", "4", "5", "6", "7", "8", "9", ":", ";",
    "<", "=", ">", "?", "@", "A", "B", "C", "D", "E", "F", "G", "H", "I",
    "J", "K", "L", "M", "N", "O", "P", "Q", "R", "S", "T", "U", "V", "W",
    "X", "Y", "Z", "[", "backslash", "]", "^", "_", "backtick", "a", "b",
    "c", "d", "e",
    "f", "g", "h", "i", "j", "k", "l", "m", "n", "o", "p", "q", "r", "s",
    "t", "u", "v", "w", "x", "y", "z", "{", "|", "}", "~">>

(* Buffer.from(url): the bytes of a text of such characters *)
CharCodes ==
  [ch \in {AsciiChars[i] : i \in 1..Len(AsciiChars)} |->
     31 + CHOOSE i \in 1..Len(AsciiChars) : AsciiChars[i] = ch]

Bytes(text) == [i \in 1..Len(text) |-> CharCodes[text[i]]]

(* The base64 alphabet: the character of each 6-bit value, from 0 on. *)
Base64Alphabet ==
  <<"A", "B", "C", "D", "E", "F", "G", "H", "I", "J", "K", "L", "M", "N",
    "O", "P", "Q", "R", "S", "T", "U", "V", "W", "X", "Y", "Z", "a", "b",
    "c", "d", "e", "f", "g", "h", "i", "j", "k", "l", "m", "n", "o", "p",
    "q", "r", "s", "t", "u", "v", "w", "x", "y", "z", "0", "1", "2", "3",
    "4", "5", "6", "7", "8", "9", "+", "/">>

(* The 6-bit values of toString("base64"): three bytes give four, a last    *)
(* group of one or two bytes gives two or three (and padding).              *)
RECURSIVE Sextets(_)
Sextets(b) ==
  IF Len(b) = 0 THEN << >>
  ELSE IF Len(b) = 1 THEN <<b[1] \div 4, (b[1] % 4) * 16>>
  ELSE IF Len(b) = 2
    THEN <<b[1] \div 4, (b[1] % 4) * 16 + b[2] \div 16, (b[2] % 16) * 4>>
  ELSE <<b[1] \div 4, (b[1] % 4) * 16 + b[2] \div 16,
         (b[2] % 16) * 4 + b[3] \div 64, b[3] % 64>>
         \o Sextets(SubSeq(b, 4, Len(b)))

(* replace(/[^a-z0-9]/gi, ""): "+", "/" and the padding go *)
RECURSIVE Alphanumerics(_)
Alphanumerics(x) ==
  IF x = << >> THEN << >>
  ELSE (IF Head(x) < 62 THEN <<Base64Alphabet[Head(x) + 1]>> ELSE << >>)
         \o Alphanumerics(Tail(x))

KeyLength == 32         \* slice(0, 32)

(* makeKey(url) *)
makeKey(url) ==
  LET a == Alphanumerics(Sextets(Bytes(url)))
  IN SubSeq(a, 1, Min(KeyLength, Len(a)))

(* The names of the keys in the store and in the jobs object: k1 is the key *)
(* of the https URLs of the site, k2 the other key of a specification.      *)
SiteKey == makeKey(Https \o WwwHost)

KeyName(key) == IF key = SiteKey THEN "k1" ELSE "k2"

----------------------------------------------------------------------------
(* POST /api/refresh from its url parameter on *)

(* The decoded texts: the root of the target site and one of its lists, a   *)
(* URL of another host whose name starts with the name of the target host,  *)
(* and a URL of a third host without and with "filmaffinity.com" in its     *)
(* path.                                                                    *)
Urls ==
  { "https://www.filmaffinity.com/",
    RequestedUrl,
    "https://www.filmaffinity.com.evil.org/list",
    "https://example.org/",
    "https://example.org/filmaffinity.com" }

(* req.query.url: none, a text that starts with http:// or https://, the    *)
(* base64 of such a text, or a text that atob rejects.                      *)
UrlParams ==
  {[given |-> FALSE, enc |-> "", url |-> ""]}
    \cup [given : {TRUE}, enc : {"plain", "b64"}, url : Urls]
    \cup {[given |-> TRUE, enc |-> "bad", url |-> ""]}

(* listUrl.includes("filmaffinity.com") *)
NamesSite(u) == Includes(Text(u), SiteName)

(* The host that fetch(url) connects to, from the characters of the URL:    *)
(* the text between the scheme and the first "/", "?" or "#" (no URL here   *)
(* has user information or a port).                                         *)
HostOf(u) ==
  LET rest == IF StartsWith(u, Https) THEN SubSeq(u, Len(Https) + 1, Len(u))
              ELSE IF StartsWith(u, Http) THEN SubSeq(u, Len(Http) + 1, Len(u))
              ELSE u
      ends == {i \in 1..Len(rest) : rest[i] \in {"/", "?", "#"}}
  IN IF ends = {} THEN rest ELSE SubSeq(rest, 1, SetMin(ends) - 1)

(* The URL is one of the target site. *)
IsTargetSite(u) == HostOf(Text(u)) = WwwHost

(* String(page) *)
DecimalDigits == <<"0", "1", "2", "3", "4", "5", "6", "7", "8", "9">>

RECURSIVE Decimal(_)
Decimal(n) ==
  IF n < 10 THEN <<DecimalDigits[n + 1]>>
  ELSE Decimal(n \div 10) \o <<DecimalDigits[(n % 10) + 1]>>

(* The characters of the URL of the GET of page p of a job: listUrl for the *)
(* first page, then `${listUrl}${sep}page=${page}` with sep "&" when        *)
(* listUrl has a "?" and "?" when it has none.                              *)
PageUrl(listUrl, p) ==
  LET text == Text(listUrl)
  IN IF p = 1 THEN text
     ELSE text \o (IF Includes(text, <<"?">>) THEN <<"&">> ELSE <<"?">>)
               \o <<"p", "a", "g", "e", "=">> \o Decimal(p)

(* makeKey(listUrl), by its name in the store *)
ListKeys == [u \in Urls |-> KeyName(makeKey(Text(u)))]

Rejected(p, error) ==
  /\ resp' = Reply("refresh", "", "invalid", "400", << >>, NoProgress, error)
  /\ UNCHANGED <<jobs, tasks>>

(* POST /api/refresh?url=p *)
RefreshUrl(p) ==
  /\ alive
  /\ ~MemBusy
  /\ calc' = [op |-> "refresh", param |-> p]
  /\ IF ~p.given THEN Rejected(p, "Falta url")
     ELSE IF p.enc = "bad" THEN Rejected(p, "URL invalida")
     ELSE IF ~NamesSite(p.url) THEN Rejected(p, "Solo filmaffinity.com")
     ELSE LET k == ListKeys[p.url]
          IN IF AlreadyRunning(k)
               THEN /\ resp' = Reply("refresh", k, "running", "running", << >>, NoProgress, "")
                    /\ UNCHANGED <<jobs, tasks>>
               ELSE /\ Len(tasks) < MaxTasks
                    /\ jobs' = [jobs EXCEPT ![k] = [NewJob EXCEPT !.progress = Progress("page", 1, 0)]]
                    /\ tasks' = Append(tasks, NewTask(k, p.url))
                    /\ resp' = Reply("refresh", k, "start", "started", << >>, NoProgress, "")
  /\ io' = NoIo
  /\ UNCHANGED <<alive, db, TMDB_KEY, site, lists, pending>>
  /\ UNCHANGED <<now, faCookie, faCookieTs, tmdbCache, tmdbStore, call, marks>>

(* The url parameters of the two routes that take a URL to fetch: every     *)
(* parameter of the refresh route and the ones the diagnostic route         *)
(* rejects (the one it accepts is followed in Next).                        *)
InitUrl ==
  /\ alive = TRUE
  /\ db = FALSE
  /\ TMDB_KEY = FALSE
  /\ site \in SmallSites
  /\ lists = [k \in Keys |-> NoDoc]
  /\ jobs = [k \in Keys |-> NoJob]
  /\ tasks = << >>
  /\ pending = [k \in Keys |-> [op \in PendOps |-> 0]]
  /\ resp = NoResp
  /\ io = NoIo
  /\ AuxInit

NextUrl ==
  \/ \E p \in UrlParams : RefreshUrl(p)
  \/ \E k \in RequestedKeys, param \in DumpParams \ {"url"} : Dump(k, param)
  \/ \E t \in TaskIds : TaskFetchReturn(t)
  \/ \E t \in TaskIds : TaskSleepReturn(t)
  \/ \E t \in TaskIds : TaskSave1Return(t)

SpecUrl == InitUrl /\ [][NextUrl]_vars

(* The url parameter is missing, cannot be decoded, or decodes to a URL     *)
(* that is not one of the target site.                                      *)
Invalid(p) == ~p.given \/ p.enc = "bad" \/ ~IsTargetSite(p.url)

(* C28: a refresh with such a parameter is answered 400 in its own step,    *)
(* with jobs and tasks as before and no request sent; and every page        *)
(* request of every task goes to the host of the target site.               *)
C28_InvalidUrlRejected ==
  [][ /\ (resp'.op = "refresh" /\ calc'.op = "refresh" /\ Invalid(calc'.param))
           => /\ resp'.status = "400"
              /\ jobs' = jobs /\ tasks' = tasks
      /\ \A t \in 1..Len(tasks') :
           \A i \in 1..Len(tasks'[t].reqs) :
             HostOf(PageUrl(tasks'[t].listUrl, tasks'[t].reqs[i])) = WwwHost
    ]_vars

----------------------------------------------------------------------------
(* The life of a snapshot *)

(* C29: a key that has a snapshot has one after every step, and a step that *)
(* changes the snapshot of such a key is a successful save of a task of     *)
(* that key.                                                                *)
C29_SnapshotKept ==
  [][ \A k \in Keys :
        lists[k].present
          => /\ lists'[k].present
             /\ lists'[k] # lists[k]
                  => /\ io'.op = "save" /\ io'.result = "ok"
                     /\ tasks[io'.t].key = k
                     /\ lists'[k].films = tasks[io'.t].allFilms
    ]_vars

----------------------------------------------------------------------------
(* parseListPage on the anchors of a page and where they sit *)

MaxAnchors == 3

(* An anchor of the page: the id in its href, the kind of the href ("es":   *)
(* /es/film<5 digits or more>.html; "en": the same under another language   *)
(* prefix; "short": /es/film<fewer than 5 digits>.html) and the container   *)
(* element it is a descendant of (0: none).  A page is its anchors in       *)
(* document order.                                                          *)
PageAnchors == [id : {1, 2}, kind : {"es", "en", "short"}, box : {0, 1, 2}]

(* The anchors of one container follow each other in the document. *)
WellNested(doc) ==
  \A i, j, l \in 1..Len(doc) :
    (i < j /\ j < l /\ doc[i].box # 0 /\ doc[i].box = doc[l].box) => doc[j].box = doc[i].box

Pages == {doc \in SeqsUpTo(PageAnchors, MaxAnchors) : WellNested(doc)}

(* /\/film\d{5,}\.html/.test(href) *)
MatchesDetail(a) == a.kind \in {"es", "en"}

(* The selector a[href*='/es/film'] and href.match(/\/film(\d{5,})\./) *)
MatchesFallback(a) == a.kind = "es"

(* The containers that hold an anchor, in document order. *)
RECURSIVE BoxOrder(_)
BoxOrder(doc) ==
  IF doc = << >> THEN << >>
  ELSE LET front == BoxOrder(SubSeq(doc, 1, Len(doc) - 1))
           b     == doc[Len(doc)].box
       IN IF b = 0 \/ \E j \in 1..Len(front) : front[j] = b THEN front ELSE Append(front, b)

(* $el.find("a").filter(...).first() for each container in turn: the id of  *)
(* the first detail anchor among its descendants, nothing when it has none. *)
RECURSIVE ContainerIds(_, _)
ContainerIds(doc, boxes) ==
  IF boxes = << >> THEN << >>
  ELSE LET links == {i \in 1..Len(doc) : doc[i].box = Head(boxes) /\ MatchesDetail(doc[i])}
       IN (IF links = {} THEN << >> ELSE <<doc[SetMin(links)].id>>)
            \o ContainerIds(doc, Tail(boxes))

(* The ids of all the anchors that the fallback scan takes. *)
RECURSIVE FallbackIds(_)
FallbackIds(doc) ==
  IF doc = << >> THEN << >>
  ELSE (IF MatchesFallback(Head(doc)) THEN <<Head(doc).id>> ELSE << >>)
         \o FallbackIds(Tail(doc))

(* if (seen.has(id)) return; seen.add(id) *)
RECURSIVE Unique(_)
Unique(ids) ==
  IF ids = << >> THEN << >>
  ELSE LET front == Unique(SubSeq(ids, 1, Len(ids) - 1))
           last  == ids[Len(ids)]
       IN IF \E j \in 1..Len(front) : front[j] = last THEN front ELSE Append(front, last)

(* parseListPage(html): the ids of the records it returns, in order.  The   *)
(* containers first; the scan of all anchors only when they gave nothing;   *)
(* the final deduplication.                                                 *)
parseListPageOf(doc) ==
  LET films == Unique(ContainerIds(doc, BoxOrder(doc)))
  IN Unique(IF films = << >> THEN Unique(FallbackIds(doc)) ELSE films)

(* What the containers of the page show next to their anchors: the average  *)
(* rating and the year, 0 when the element is missing or its text does not  *)
(* parse (parseFloat(..) || null, parseInt(..) || null).                    *)
Figures == [rating : {0, 7}, year : {0, 2000}]

(* films.push({ id, ..., rating, year, ... }) of the container strategy *)
ContainerFilms(doc, figs) ==
  LET ids == Unique(ContainerIds(doc, BoxOrder(doc)))
  IN [i \in 1..Len(ids) |-> [id |-> ids[i], rating |-> figs.rating, year |-> figs.year]]

(* films.push({ id: m[1], ..., rating: null, year: null, ... }) of the scan *)
FallbackFilms(doc) ==
  LET ids == Unique(FallbackIds(doc))
  IN [i \in 1..Len(ids) |-> [id |-> ids[i], rating |-> 0, year |-> 0]]

parseListPageFilmsAlwaysScans(doc, figs) ==
  DedupeById(ContainerFilms(doc, figs) \o FallbackFilms(doc))

(* parseListPage(html): the records it returns, reduced to id, rating and   *)
(* year.  if (films.length === 0) { the scan }, then the deduplication.     *)
parseListPageFilms(doc, figs) ==
  LET films == ContainerFilms(doc, figs)
  IN DedupeById(IF Len(films) = 0 THEN FallbackFilms(doc) ELSE films)

InitParse ==
  /\ alive = TRUE
  /\ db = FALSE
  /\ TMDB_KEY = FALSE
  /\ site \in {s \in SmallSites : s.pager = {} /\ s.head[1] # << >>}
  /\ lists = [k \in Keys |-> NoDoc]
  /\ jobs = [k \in Keys |-> NoJob]
  /\ tasks = << >>
  /\ pending = [k \in Keys |-> [op \in PendOps |-> 0]]
  /\ resp = NoResp
  /\ io = NoIo
  /\ now = 0 /\ faCookie = "" /\ faCookieTs = 0
  /\ tmdbCache = [id \in EnrichIds |-> NoEntry]
  /\ tmdbStore = [id \in EnrichIds |-> NoEntry]
  /\ call = NoCall
  /\ marks = [k \in Keys |-> NoMarks]
  /\ \E doc \in Pages, figs \in Figures :
       calc = [op |-> "args", doc |-> doc, figs |-> figs, ids |-> << >>, films |-> << >>]

ApplyParseListPage ==
  /\ calc.op = "args"
  /\ calc' = [calc EXCEPT !.op = "parseListPage",
                          !.ids = parseListPageOf(calc.doc),
                          !.films = parseListPageFilms(calc.doc, calc.figs)]
  /\ UNCHANGED <<alive, db, TMDB_KEY, site, lists, jobs, tasks, pending, resp, io>>
  /\ UNCHANGED <<now, faCookie, faCookieTs, tmdbCache, tmdbStore, call, marks>>

NextParse == ApplyParseListPage

SpecParse == InitParse /\ [][NextParse]_vars

(* The detail anchors of the page, and whether their ids are all different. *)
DetailAnchors(doc) == {i \in 1..Len(doc) : MatchesDetail(doc[i])}

DistinctDetailIds(doc) ==
  \A i, j \in DetailAnchors(doc) : doc[i].id = doc[j].id => i = j

(* The records are one for each detail anchor of the page. *)
OnePerAnchor ==
  /\ Len(calc.ids) = Cardinality(DetailAnchors(calc.doc))
  /\ {calc.ids[i] : i \in 1..Len(calc.ids)} = {calc.doc[i].id : i \in DetailAnchors(calc.doc)}

ReturnsDistinctIds ==
  \A i, j \in 1..Len(calc.ids) : calc.ids[i] = calc.ids[j] => i = j

(* C30 as claimed: wherever its detail anchors sit, a page whose detail     *)
(* anchors have different ids gives one record for each of them; and the    *)
(* ids of the records returned are always different.                        *)
C30_OnePerAnchorAnywhere ==
  calc.op = "parseListPage" =>
    /\ DistinctDetailIds(calc.doc) => OnePerAnchor
    /\ ReturnsDistinctIds

----------------------------------------------------------------------------
(* parseListPage: when the scan of all anchors runs *)

(* The first detail anchor of each container that has one. *)
FirstInContainer(doc) ==
  {i \in DetailAnchors(doc) :
     doc[i].box # 0 /\ \A j \in DetailAnchors(doc) : doc[j].box = doc[i].box => i <= j}

(* The anchors that the scan takes. *)
ScanAnchors(doc) == {i \in 1..Len(doc) : MatchesFallback(doc[i])}

(* The records are one per id of the anchors S, in the order in which the   *)
(* ids first appear among them.                                             *)
OnePerIdFirstSeen(films, doc, S) ==
  /\ {films[n].id : n \in 1..Len(films)} = {doc[i].id : i \in S}
  /\ \A n, m \in 1..Len(films) :
       n < m =>
         /\ films[n].id # films[m].id
         /\ SetMin({i \in S : doc[i].id = films[n].id})
              < SetMin({i \in S : doc[i].id = films[m].id})

(* C31: when no container holds a detail anchor the records are one per id  *)
(* of the anchors that the scan takes, in first-seen order, without rating  *)
(* and year; when some container holds one, the records are one per id of   *)
(* the first detail anchors of the containers, with what the containers     *)
(* show, and no anchor outside them adds a record.                          *)
C31_FallbackOnlyWhenEmpty ==
  calc.op = "parseListPage" =>
    IF FirstInContainer(calc.doc) = {}
      THEN /\ OnePerIdFirstSeen(calc.films, calc.doc, ScanAnchors(calc.doc))
           /\ \A n \in 1..Len(calc.films) :
                calc.films[n].rating = 0 /\ calc.films[n].year = 0
      ELSE /\ OnePerIdFirstSeen(calc.films, calc.doc, FirstInContainer(calc.doc))
           /\ \A n \in 1..Len(calc.films) :
                calc.films[n].rating = calc.figs.rating /\ calc.films[n].year = calc.figs.year

(* A page of three anchors outside the containers, two of them of one id,   *)
(* next to figures that the scan must not take: two records.                *)
C31_Witness ==
  /\ calc.op = "parseListPage"
  /\ calc.figs = [rating |-> 7, year |-> 2000]
  /\ FirstInContainer(calc.doc) = {}
  /\ Cardinality(ScanAnchors(calc.doc)) = 3
  /\ Len(calc.films) = 2

----------------------------------------------------------------------------
(* parseListPage: the title of the record of one container *)

(* The selector candidates of the title, in the order of the source:        *)
(* ".mc-title a", ".mc-title", ".title-mc", ".movie-title".                 *)
TitleSelectors == 1..4

(* What a selector finds in the container: no element, an element of blank  *)
(* text, or an element with text; and whether the anchor of the record has  *)
(* a title attribute.  An element ".mc-title a" lies in an element          *)
(* ".mc-title", whose text contains its text.                               *)
Containers ==
  {c \in [sel : [TitleSelectors -> {"none", "blank", "text"}], attr : {"none", "text"}] :
     /\ c.sel[1] = "text" => c.sel[2] = "text"
     /\ c.sel[1] = "blank" => c.sel[2] # "none"}

(* The text that each selector candidate shows when it shows one; the last  *)
(* one shows the title twice.                                               *)
TitleText(i) ==
  CASE i = 1 -> <<"a">>
    [] i = 2 -> <<"É">>
    [] i = 3 -> <<"!", "a">>
    [] i = 4 -> <<"!", " ", "!">>

AttrText == <<"É", "!">>

(* $el.find(selector).first().text() *)
SelectorText(c, i) ==
  IF i = 2 /\ c.sel[1] = "text" THEN TitleText(1)
  ELSE IF c.sel[i] = "text" THEN TitleText(i)
  ELSE IF c.sel[i] = "blank" THEN <<" ">>
  ELSE << >>

(* String.prototype.trim *)
RECURSIVE TrimText(_)
TrimText(s) ==
  IF s = << >> THEN s
  ELSE IF s[1] = " " THEN TrimText(Tail(s))
  ELSE IF s[Len(s)] = " " THEN TrimText(SubSeq(s, 1, Len(s) - 1))
  ELSE s

(* The candidate that titleEl is: a || b || c || d over the objects that    *)
(* first() returns, each of which is truthy whether or not it holds an      *)
(* element.                                                                 *)
TitleEl(c) == 1

(* if (title) { the two halves; a title that shows twice is shown once } *)
Cleanup(title) ==
  LET half       == Len(title) \div 2
      firstHalf  == TrimText(SubSeq(title, 1, half))
      secondHalf == TrimText(SubSeq(title, half + 1, Len(title)))
  IN IF title # << >> /\ firstHalf # << >> /\ firstHalf = secondHalf THEN firstHalf ELSE title

(* The title of the record of the container c. *)
parseTitle(c) ==
  LET el    == TitleEl(c)
      title == IF c.sel[el] # "none" THEN TrimText(SelectorText(c, el)) ELSE << >>
  IN Cleanup(IF title = << >>
               THEN (IF c.attr = "text" THEN AttrText ELSE << >>)
               ELSE title)

InitTitle ==
  /\ alive = TRUE
  /\ db = FALSE
  /\ TMDB_KEY = FALSE
  /\ site \in {s \in SmallSites : s.pager = {} /\ s.head[1] # << >>}
  /\ lists = [k \in Keys |-> NoDoc]
  /\ jobs = [k \in Keys |-> NoJob]
  /\ tasks = << >>
  /\ pending = [k \in Keys |-> [op \in PendOps |-> 0]]
  /\ resp = NoResp
  /\ io = NoIo
  /\ now = 0 /\ faCookie = "" /\ faCookieTs = 0
  /\ tmdbCache = [id \in EnrichIds |-> NoEntry]
  /\ tmdbStore = [id \in EnrichIds |-> NoEntry]
  /\ call = NoCall
  /\ marks = [k \in Keys |-> NoMarks]
  /\ \E c \in Containers : calc = [op |-> "args", box |-> c, title |-> << >>]

ApplyParseTitle ==
  /\ calc.op = "args"
  /\ calc' = [calc EXCEPT !.op = "parseTitle", !.title = parseTitle(calc.box)]
  /\ UNCHANGED <<alive, db, TMDB_KEY, site, lists, jobs, tasks, pending, resp, io>>
  /\ UNCHANGED <<now, faCookie, faCookieTs, tmdbCache, tmdbStore, call, marks>>

NextTitle == ApplyParseTitle

SpecTitle == InitTitle /\ [][NextTitle]_vars

(* The selector candidates of c that show text, and the title that their    *)
(* priority order gives: the text of the first of them, the title attribute *)
(* of the anchor when there is none.                                        *)
WithText(c) == {i \in TitleSelectors : TrimText(SelectorText(c, i)) # << >>}

TitleByPriority(c) ==
  IF WithText(c) # {} THEN TrimText(SelectorText(c, SetMin(WithText(c))))
  ELSE IF c.attr = "text" THEN AttrText
  ELSE << >>

(* C32 as claimed: the title of the record is the text of the first         *)
(* selector candidate that shows text, shown once when it shows twice, and  *)
(* the title attribute of the anchor only when no candidate shows text.     *)
C32_TitleByPriority ==
  calc.op = "parseTitle" => calc.title = Cleanup(TitleByPriority(calc.box))

----------------------------------------------------------------------------
(* parseTotalPages on the pagination links of a page, and the job of a list *)
(* whose first page shows these links                                       *)

(* The texts of the links under the pagination selectors. *)
LinkTexts == {"Next", "0", "1", "7", "30", "31", "99", "100", "2024"}

(* parseInt(text): a number, or NaN for a text that does not start with one *)
IsNaN(text) == text = "Next"

ParseInt(text) ==
  CASE text = "0"    -> 0
    [] text = "1"    -> 1
    [] text = "7"    -> 7
    [] text = "30"   -> 30
    [] text = "31"   -> 31
    [] text = "99"   -> 99
    [] text = "100"  -> 100
    [] text = "2024" -> 2024
    [] OTHER         -> 0

(* The argument of parseTotalPages: a string with such links, or a value    *)
(* that is not a string.                                                    *)
PagerInputs ==
  {[string |-> FALSE, links |-> {}]} \cup [string : {TRUE}, links : SUBSET LinkTexts]

(* The numbers that the links of the input show. *)
PagerOf(input) == {ParseInt(x) : x \in {y \in input.links : ~IsNaN(y)}}

(* if (typeof html !== "string") return 1; then the scan of the links *)
parseTotalPagesOf(input) ==
  IF ~input.string THEN 1
  ELSE parseTotalPages([anchors |-> << >>, pager |-> PagerOf(input)])

(* The pages of the list: a film on every page, or none on page 3. *)
PageHeads ==
  { << <<Film(1, "a")>> >>,
    << <<Film(1, "a")>>, <<Film(2, "a")>>, << >> >> }

(* The process has just started; the pagination of the list shows the links *)
(* of the input of parseTotalPages.                                         *)
InitPages ==
  /\ alive = TRUE
  /\ db = FALSE
  /\ TMDB_KEY = FALSE
  /\ lists = [k \in Keys |-> NoDoc]
  /\ jobs = [k \in Keys |-> NoJob]
  /\ tasks = << >>
  /\ pending = [k \in Keys |-> [op \in PendOps |-> 0]]
  /\ resp = NoResp
  /\ io = NoIo
  /\ now = 0 /\ faCookie = "" /\ faCookieTs = 0
  /\ tmdbCache = [id \in EnrichIds |-> NoEntry]
  /\ tmdbStore = [id \in EnrichIds |-> NoEntry]
  /\ call = NoCall
  /\ marks = [k \in Keys |-> NoMarks]
  /\ \E input \in PagerInputs, head \in PageHeads :
       /\ site = [pager |-> PagerOf(input), head |-> head, tail |-> <<Film(3, "b")>>]
       /\ calc = [op |-> "args", html |-> input, totalPages |-> 0]

ApplyParseTotalPages ==
  /\ calc.op = "args"
  /\ calc' = [calc EXCEPT !.op = "parseTotalPages", !.totalPages = parseTotalPagesOf(calc.html)]
  /\ UNCHANGED <<alive, db, TMDB_KEY, site, lists, jobs, tasks, pending, resp, io>>
  /\ UNCHANGED <<now, faCookie, faCookieTs, tmdbCache, tmdbStore, call, marks>>

(* The function on its own, and the first job of the process on the list,   *)
(* callback by callback.                                                    *)
NextPages ==
  \/ ApplyParseTotalPages
  \/ \E k \in RequestedKeys : tasks = << >> /\ Refresh(k)
  \/ \E t \in TaskIds : TaskFetchReturn(t)
  \/ \E t \in TaskIds : TaskSleepReturn(t)
  \/ \E t \in TaskIds : TaskSave1Return(t)

SpecPages == InitPages /\ [][NextPages]_vars

(* The page numbers from 1 to 99 that the links of the input show. *)
PageNumbers(input) ==
  {n \in 1..MaxPagerNumber :
     input.string /\ \E x \in input.links : ~IsNaN(x) /\ ParseInt(x) = n}

(* C33: parseTotalPages returns a number from 1 to 99: the largest page     *)
(* number up to 99 among the links, 1 when the links show none or the       *)
(* input is not a string; the job reads such a number off its first page,   *)
(* and at every moment it has asked for at most 30 pages, none beyond       *)
(* page 30.                                                                 *)
C33_TotalPagesWithinCeiling ==
  /\ calc.op = "parseTotalPages" =>
       /\ calc.totalPages \in 1..99
       /\ \A n \in PageNumbers(calc.html) : n <= calc.totalPages
       /\ calc.totalPages \in PageNumbers(calc.html) \cup {1}
  /\ \A t \in TaskIds :
       /\ tasks[t].totalPages \in 0..99
       /\ Len(tasks[t].reqs) <= 30
       /\ \A i \in 1..Len(tasks[t].reqs) : tasks[t].reqs[i] <= 30

(* A page whose links show 7, 31 and 2024: parseTotalPages gives 31, and    *)
(* the job of that list has asked for 30 pages and waits for page 30.       *)
C33_Witness ==
  /\ calc.op = "parseTotalPages"
  /\ calc.html = [string |-> TRUE, links |-> {"7", "31", "2024"}]
  /\ calc.totalPages = 31
  /\ Len(tasks) = 1
  /\ tasks[1].pc = "fetch"
  /\ tasks[1].totalPages = 31
  /\ tasks[1].reqs = [p \in 1..30 |-> p]

----------------------------------------------------------------------------
(* The status read of a finished job and a new start of the same key *)

(* C34 as claimed: no step removes a job entry that is running, and no task *)
(* finds its job entry gone when it sets the progress or the final status.  *)
C34_RunningEntryKept ==
  [][ /\ \A k \in Keys : jobs[k].status = "running" => jobs'[k].status # "absent"
      /\ \A t \in 1..Len(tasks') : tasks'[t].pc # "crashed"
    ]_vars

----------------------------------------------------------------------------
(* The snapshot of a finished job, of a restore and of an empty scrape *)

(* C35 as claimed: a job entry that is done has a snapshot; in the step     *)
(* that sets done it is the one saved by the task that sets it, and it      *)
(* stays that one for as long as the entry is done.                         *)
C35_DoneHasOwnSnapshot ==
  [][ \A k \in Keys :
        jobs'[k].status = "done"
          => /\ lists'[k].present
             /\ IF jobs[k].status = "done"
                  THEN lists'[k] = lists[k]
                  ELSE io'.op = "save" /\ lists'[k].ts[1] = io'.t
    ]_vars

(* C37 as claimed: the save of a restore that finds a snapshot for its key  *)
(* leaves that snapshot as it is.                                           *)
C37_RestoreKeepsSnapshot ==
  [][ \A k \in Keys :
        (pending'[k]["restoreSave"] < pending[k]["restoreSave"] /\ lists[k].present)
          => lists'[k] = lists[k]
    ]_vars

(* C38 as claimed: the save of a task never puts an empty film list in the  *)
(* place of a snapshot that has films.                                      *)
C38_NoEmptyOverwrite ==
  [][ \A k \in Keys :
        (io'.op = "save" /\ lists[k].present /\ lists[k].films # << >>)
          => lists'[k].films # << >>
    ]_vars

----------------------------------------------------------------------------
(* tmdbEnrich in a process that starts over a store that has entries *)

(* What an earlier process has left in the "tmdb" collection for a film:    *)
(* nothing, or an entry saved just before this process started or a full    *)
(* lifetime of the cache before.                                            *)
StoredEntries ==
  {NoEntry} \cup [present : {TRUE}, data : {"data", "empty"}, ts : {0 - 1, 0 - TmdbTtl}]

(* The process has just started with MongoDB connected: tmdbCache is empty, *)
(* the collection is as the earlier process left it.                        *)
InitRestart ==
  /\ alive = TRUE
  /\ db = TRUE
  /\ TMDB_KEY = TRUE
  /\ site \in {s \in SmallSites : s.pager = {} /\ s.head[1] # << >>}
  /\ lists = [k \in Keys |-> NoDoc]
  /\ jobs = [k \in Keys |-> NoJob]
  /\ tasks = << >>
  /\ pending = [k \in Keys |-> [op \in PendOps |-> 0]]
  /\ resp = NoResp
  /\ io = NoIo
  /\ now = 0 /\ faCookie = "" /\ faCookieTs = 0
  /\ tmdbCache = [id \in EnrichIds |-> NoEntry]
  /\ tmdbStore \in [EnrichIds -> StoredEntries]
  /\ call = NoCall
  /\ marks = [k \in Keys |-> NoMarks]
  /\ calc = NoCalc

(* The first tmdbEnrich call of the process. *)
NextRestart ==
  \/ \E id \in EnrichIds : call.op = "none" /\ EnrichCall(id)
  \/ SearchReturn
  \/ DetailReturn
  \/ StoreReturn

SpecRestart == InitRestart /\ [][NextRestart]_vars

(* The store has an entry for the film that is younger than the lifetime of *)
(* the cache.                                                               *)
StoreFresh(id) == tmdbStore[id].present /\ now - tmdbStore[id].ts < TmdbTtl

(* C39 as claimed: a call for a film that has such an entry in the store    *)
(* and none in tmdbCache returns the stored data and sends no request.      *)
C39_StoredEnrichmentUsed ==
  [][ \A id \in EnrichIds :
        ( /\ call.pc \in {"idle", "returned"}
          /\ call'.op = "tmdbEnrich" /\ call'.id = id /\ call' # call
          /\ StoreFresh(id) /\ ~tmdbCache[id].present )
          => /\ call'.pc = "returned"
             /\ call'.result = tmdbStore[id].data
             /\ call'.reqs = << >>
    ]_vars

----------------------------------------------------------------------------
(* Refreshes of several list URLs of the site *)

(* The list URLs of the requests: two lists of the site, each under https   *)
(* and under http.                                                          *)
ListUrls ==
  { "https://www.filmaffinity.com/es/userlist.php?user_id=1&list_id=1",
    "https://www.filmaffinity.com/es/userlist.php?user_id=1&list_id=2",
    "http://www.filmaffinity.com/es/userlist.php?user_id=1&list_id=1",
    "http://www.filmaffinity.com/es/userlist.php?user_id=1&list_id=2" }

(* makeKey(listUrl) of each of them, by its name in the store *)
ListUrlKeys == [u \in ListUrls |-> KeyName(makeKey(Text(u)))]

(* No request yet. *)
NoRequest == [op |-> "none", url |-> ""]

(* POST /api/refresh?url=u for a list URL of the site: the checks of lines  *)
(* 416-419 pass.                                                            *)
RefreshList(u) ==
  /\ alive
  /\ ~MemBusy
  /\ LET k == ListUrlKeys[u]
     IN IF AlreadyRunning(k)
          THEN /\ resp' = Reply("refresh", k, "running", "running", << >>, NoProgress, "")
               /\ calc' = [op |-> "refresh", url |-> u]
               /\ UNCHANGED <<jobs, tasks>>
          ELSE /\ Len(tasks) < MaxTasks
               /\ jobs' = [jobs EXCEPT ![k] = [NewJob EXCEPT !.progress = Progress("page", 1, 0)]]
               /\ tasks' = Append(tasks, NewTask(k, u))
               /\ resp' = Reply("refresh", k, "start", "started", << >>, NoProgress, "")
               /\ calc' = [op |-> "refresh", url |-> u]
  /\ io' = NoIo
  /\ UNCHANGED <<alive, db, TMDB_KEY, site, lists, pending>>
  /\ UNCHANGED <<now, faCookie, faCookieTs, tmdbCache, tmdbStore, call, marks>>

InitLists ==
  /\ alive = TRUE
  /\ db = FALSE
  /\ TMDB_KEY = FALSE
  /\ site \in SmallSites
  /\ lists = [k \in Keys |-> NoDoc]
  /\ jobs = [k \in Keys |-> NoJob]
  /\ tasks = << >>
  /\ pending = [k \in Keys |-> [op \in PendOps |-> 0]]
  /\ resp = NoResp
  /\ io = NoIo
  /\ now = 0 /\ faCookie = "" /\ faCookieTs = 0
  /\ tmdbCache = [id \in EnrichIds |-> NoEntry]
  /\ tmdbStore = [id \in EnrichIds |-> NoEntry]
  /\ call = NoCall
  /\ marks = [k \in Keys |-> NoMarks]
  /\ calc = NoRequest

NextLists ==
  \/ \E u \in ListUrls : RefreshList(u)
  \/ \E t \in TaskIds : TaskFetchReturn(t)
  \/ \E t \in TaskIds : TaskSleepReturn(t)
  \/ \E t \in TaskIds : TaskSave1Return(t)

SpecLists == InitLists /\ [][NextLists]_vars

(* The step is the refresh request of list URL a, or a step of a task that  *)
(* was started with it.                                                     *)
RefreshOf(a) ==
  \/ resp'.op = "refresh" /\ calc'.url = a
  \/ \E t \in 1..Len(tasks) : tasks'[t] # tasks[t] /\ tasks[t].listUrl = a

(* C36 as claimed: a refresh of one list URL leaves the job entry and the   *)
(* snapshot of every other list URL as they are, and a start is answered    *)
(* "running" only when a task started with that same list URL is running.   *)
C36_ListsSeparate ==
  [][ /\ \A a, b \in ListUrls :
           (a # b /\ RefreshOf(a))
             => /\ jobs'[ListUrlKeys[b]] = jobs[ListUrlKeys[b]]
                /\ lists'[ListUrlKeys[b]] = lists[ListUrlKeys[b]]
      /\ (resp'.op = "refresh" /\ resp'.status = "running")
           => \E t \in 1..Len(tasks) :
                /\ tasks[t].listUrl = calc'.url
                /\ tasks[t].pc \notin {"ended", "crashed"}
    ]_vars

====
